---- MODULE Spec2Model ----
(***************************************************************************)
(* Model of the NodeASM post-management backend: the post service with its *)
(* cache-aside layer (controllers/postController.js), the user service     *)
(* (controllers/userController.js) and the data they act on.               *)
(*                                                                         *)
(* Text values (titles, contents, categories, query parameters) are        *)
(* sequences of one-character strings, so that trimming, truthiness,       *)
(* parseInt and case-insensitive matching are computed, not assumed.       *)
(* Every request handler is one action where requests are served one at a  *)
(* time; the section "overlapping requests" splits the handlers at their   *)
(* awaits, one action per awaited call, for requests that run side by      *)
(* side.                                                                   *)
(***************************************************************************)
EXTENDS Integers, Sequences, FiniteSets, TLC

\* ------------------------------------------------------------------ bounds
MaxPosts == 1   \* post ids the store may allocate
MaxFiles == 1   \* files a client may upload
MaxStored == 3  \* posts in a store whose pages are listed
MaxExported == 2  \* posts in a store that is exported
MaxClock == 0   \* clock readings an export may start at: 0..MaxClock
MaxRecipients == 11  \* recipients of one call of sendBulkEmail
MaxOverlap == 2  \* handlers that run side by side

\* -------------------------------------------------------- program constants
ListTTL == 300          \* seconds a cached list page lives
DetailTTL == 600        \* seconds a cached post lives
DefaultPage == 1
DefaultLimit == 10
MaxTitleLen == 200
batchSize == 5          \* sends sendBulkEmail starts together

\* ------------------------------------------------------------ text values
\* JavaScript undefined for a text-valued field (a missing body or query field)
Undef == <<"undefined">>

Truthy(s) == s # Undef /\ s # <<>>

IsSpace(c) == c = " "

RECURSIVE TrimLeft(_)
TrimLeft(s) == IF s # <<>> /\ IsSpace(Head(s)) THEN TrimLeft(Tail(s)) ELSE s

RECURSIVE TrimRight(_)
TrimRight(s) ==
  IF s # <<>> /\ IsSpace(s[Len(s)]) THEN TrimRight(SubSeq(s, 1, Len(s) - 1)) ELSE s

\* the schema option trim: true
Trim(s) == TrimRight(TrimLeft(s))

Lower(c) ==
  CASE c = "A" -> "a" [] c = "B" -> "b" [] c = "D" -> "d" [] c = "J" -> "j"
    [] c = "N" -> "n" [] c = "S" -> "s" [] OTHER -> c

LowerStr(s) == [i \in 1..Len(s) |-> Lower(s[i])]

\* { $regex: search, $options: 'i' } for a search text without metacharacters
RegexMatchI(text, search) ==
  \E i \in 1..(Len(text) - Len(search) + 1) :
    LowerStr(SubSeq(text, i, i + Len(search) - 1)) = LowerStr(search)

DigitValue(c) ==
  CASE c = "0" -> 0 [] c = "1" -> 1 [] c = "2" -> 2 [] c = "3" -> 3 [] c = "4" -> 4
    [] c = "5" -> 5 [] c = "6" -> 6 [] c = "7" -> 7 [] c = "8" -> 8 [] c = "9" -> 9
    [] OTHER -> -1

RECURSIVE DigitsValue(_, _)
DigitsValue(s, acc) ==
  IF s = <<>> \/ DigitValue(Head(s)) < 0 THEN acc
  ELSE DigitsValue(Tail(s), 10 * acc + DigitValue(Head(s)))

\* parseInt of a query parameter that starts with a digit, or of the numeric default
ParseInt(v, default) == IF v = Undef THEN default ELSE DigitsValue(v, 0)

RECURSIVE DecimalText(_)
DecimalText(n) ==
  IF n < 10 THEN <<CHOOSE c \in {"0","1","2","3","4","5","6","7","8","9"} : DigitValue(c) = n>>
  ELSE DecimalText(n \div 10) \o DecimalText(n % 10)

\* `${page}` of a template literal: the parameter text, or the default's digits
TemplateText(v, default) == IF v = Undef THEN DecimalText(default) ELSE v

Tech == <<"t","e","c","h">>
Lifestyle == <<"l","i","f","e","s","t","y","l","e">>
Business == <<"b","u","s","i","n","e","s","s">>
Education == <<"e","d","u","c","a","t","i","o","n">>
Health == <<"h","e","a","l","t","h">>
Entertainment == <<"e","n","t","e","r","t","a","i","n","m","e","n","t">>
Other == <<"o","t","h","e","r">>
Sports == <<"s","p","o","r","t","s">>
AllText == <<"a","l","l">>
NoneText == <<"n","o","n","e">>
CreatedAt == <<"c","r","e","a","t","e","d","A","t">>
Desc == <<"d","e","s","c">>
Asc == <<"a","s","c">>

\* the enum of postSchema.category
CategoryEnum == {Tech, Lifestyle, Business, Education, Health, Entertainment, Other}

\* ------------------------------------------------------------------ users
\* the seeded accounts; a user's id is written as its username
Users == {"admin", "john_doe", "jane_smith"}

SeedRole(u) == IF u = "admin" THEN "admin" ELSE "user"

\* the seed users in the order the seed creates them
SeedOrder(u) == CASE u = "admin" -> 1 [] u = "john_doe" -> 2 [] u = "jane_smith" -> 3

\* -------------------------------------------------------------- documents
ObjectId(x) == [t |-> "ObjectId", hex |-> x]
DateAt(n) == [t |-> "Date", ms |-> n]

\* JSON.stringify of an ObjectId or a Date is a string; of a string, itself
JsonValue(v) ==
  CASE v.t = "ObjectId" -> [t |-> "string", hex |-> v.hex]
    [] v.t = "Date" -> [t |-> "string", iso |-> v.ms]
    [] OTHER -> v

JsonAuthor(a) == [a EXCEPT !._id = JsonValue(@)]

JsonPost(p) ==
  [p EXCEPT !._id = JsonValue(@), !.author = JsonAuthor(@), !.createdAt = JsonValue(@)]

JsonPosts(ps) == [i \in DOMAIN ps |-> JsonPost(ps[i])]

\* JSON.stringify gives a text; JSON.parse reads the text back
JSONstringify(json) == [text |-> json]
JSONparse(s) == s.text

\* a missing user id in a filter
UndefId == "undefined"

\* ------------------------------------------------------------------ state
VARIABLES
  users,        \* the User collection: id -> [role, isActive, password, fullName, email]
  posts,        \* the Post collection: id -> document, for the posts that exist
  nextId,       \* the next post id the store hands out
  files,        \* the thumbnail files in upload storage
  nextFile,     \* the next upload's file name
  redisClient,  \* TRUE when a cache client was set at startup
  cache,        \* the cache: key -> [text, ttl], for the keys present
  req,          \* the request being answered
  res,          \* its response
  emitted,      \* the events the request emitted, in order
  notified,     \* the recipients the request's listeners handed to sendBulkEmail
  mail,         \* the call of sendBulkEmail in progress
  exportsDir,   \* the exports directory: file name -> the rows written to it
  timers,       \* the export files with a pending clean-up timer
  returned,     \* history: id -> the post a Create returned, until it is updated or deleted
  deletedOK,    \* history: id -> whether post:{id} was cached, for each successful Delete
  hist,         \* history: how this request relates to the one before it
  running       \* the handlers that run side by side: slot -> position and locals

vars ==
  <<users, posts, nextId, files, nextFile, redisClient, cache, req, res, emitted, notified, mail,
    exportsDir, timers, returned, deletedOK, hist, running>>

\* the ids a request may name: those of the posts created while the service
\* runs, and those of the posts in the store
PostIds == (1..MaxPosts) \cup DOMAIN posts
FileNames == 1..MaxFiles

\* ------------------------------------------------------------------ store
\* Post.findById(id): the document, for an id that resolves
Exists(id) == id \in DOMAIN posts

\* .populate('author', 'username')
PopulateAuthor(a) == [_id |-> ObjectId(a), username |-> a]

\* a stored post as the store returns it, author populated
Document(id, p) ==
  [_id |-> ObjectId(id), title |-> p.title, content |-> p.content,
   category |-> p.category, author |-> PopulateAuthor(p.author),
   thumbnail |-> p.thumbnail, createdAt |-> DateAt(p.createdAt)]

\* the filter of Post.find / Post.countDocuments
Matches(p, query) ==
  /\ query.category = Undef \/ p.category = query.category
  /\ query.search = Undef
       \/ RegexMatchI(p.title, query.search) \/ RegexMatchI(p.content, query.search)
  /\ query.author = UndefId \/ p.author = query.author

MatchingIds(store, query) == {id \in DOMAIN store : Matches(store[id], query)}

Min(S) == CHOOSE x \in S : \A y \in S : x <= y
Max(S) == CHOOSE x \in S : \A y \in S : x >= y

\* .sort({createdAt: dir}): ids are handed out in creation order
RECURSIVE SortCreatedAt(_, _)
SortCreatedAt(S, dir) ==
  IF S = {} THEN <<>>
  ELSE LET first == IF dir = -1 THEN Max(S) ELSE Min(S)
       IN <<first>> \o SortCreatedAt(S \ {first}, dir)

\* .skip(skip).limit(limit) of a sorted result
SkipLimit(seq, skip, limit) ==
  SubSeq(seq, skip + 1, IF skip + limit < Len(seq) THEN skip + limit ELSE Len(seq))

\* Math.ceil(a / b), b >= 1
Ceil(a, b) == (a + b - 1) \div b

\* ------------------------------------------------------------------ cache
\* what can go wrong with the cache during one request: nothing, a failing
\* get, a get that returns a text JSON.parse rejects, a failing setEx, a
\* failing keys or a failing del
CacheFaults == {"none", "get", "garbage", "set", "keys", "del"}

GetFails(fault) == fault = "get"
GetGarbage(fault) == fault = "garbage"
SetFails(fault) == fault = "set"
KeysFails(fault) == fault = "keys"
DelFails(fault) == fault = "del"

getCacheKey(page, limit, sortBy, category, search) ==
  <<"posts", page, limit, sortBy,
    IF Truthy(category) THEN category ELSE AllText,
    IF Truthy(search) THEN search ELSE NoneText>>

DetailKey(id) == <<"post", id>>

\* a keys() pattern that matches the detail entries instead of the list pages
DetailKeysOnly(c) == {k \in DOMAIN c : k[1] = "post"}

\* a keys() pattern that matches every key
EveryKey(c) == DOMAIN c

\* the keys redisClient.keys('posts:*') returns
ListKeys(c) == {k \in DOMAIN c : k[1] = "posts"}

\* the "check cache first" block of getAllPosts and getPostById: a hit gives
\* the parsed text; a failing get or an unparsable text is logged and ignored
CacheLookup(client, c, key, fault) ==
  IF client /\ ~GetFails(fault) /\ ~GetGarbage(fault) /\ key \in DOMAIN c
  THEN [hit |-> TRUE, value |-> JSONparse(c[key].text)]
  ELSE [hit |-> FALSE]

\* a "cache the result" block that stores nothing
CacheStoreNothing(client, c, key, ttl, text, fault) == c

\* the "cache the result" block: setEx(key, ttl, text), errors logged and ignored
CacheStore(client, c, key, ttl, text, fault) ==
  IF client /\ ~SetFails(fault)
  THEN [k \in DOMAIN c \cup {key} |-> IF k = key THEN [text |-> text, ttl |-> ttl] ELSE c[k]]
  ELSE c

\* redisClient.del(keys)
Del(c, keys) == [k \in DOMAIN c \ keys |-> c[k]]

\* the "clear relevant cache" block of createPost
ClearListCache(client, c, fault) ==
  IF client /\ ~KeysFails(fault) /\ ~(DelFails(fault) /\ ListKeys(c) # {})
  THEN Del(c, ListKeys(c))
  ELSE c

\* a clear block that forgets to push post:{id}
ClearListPagesOnly(client, c, id, fault) ==
  IF client /\ ~KeysFails(fault) /\ ~DelFails(fault) THEN Del(c, ListKeys(c)) ELSE c

\* the "clear relevant cache" block of updatePost and deletePost
ClearPostCache(client, c, id, fault) ==
  IF client /\ ~KeysFails(fault) /\ ~DelFails(fault)
  THEN Del(c, ListKeys(c) \cup {DetailKey(id)})
  ELSE c

\* cache blocks without a try/catch of their own
EscapesToOuterCatch(failed) == failed

\* whether a failing cache operation reaches the handler's outer catch: every
\* cache block is its own try { } catch (cacheError) { console.error(...) }
CacheErrorEscapes(failed) == FALSE

\* the cache operations a request performs and that fail under `fault`
LookupFails(client, fault) == client /\ (GetFails(fault) \/ GetGarbage(fault))
StoreFails(client, fault) == client /\ SetFails(fault)
ClearListFails(client, c, fault) ==
  client /\ (KeysFails(fault) \/ (DelFails(fault) /\ ListKeys(c) # {}))
ClearPostFails(client, fault) == client /\ (KeysFails(fault) \/ DelFails(fault))

\* -------------------------------------------------------------- responses
NoData == [none |-> TRUE]

\* res.status(status).json({success, message, data}); data travels as JSON
Response(status, message, data) ==
  [status |-> status, success |-> status < 400, message |-> message, data |-> data]

\* no response sent
NoResponse == Response(0, "", NoData)

\* the handler's outer catch answers 500 if a cache error reaches it
Guarded(o, failed, message) ==
  IF CacheErrorEscapes(failed) THEN [o EXCEPT !.res = Response(500, message, NoData)] ELSE o

\* ---------------------------------------------------------------- List
\* a skip that forgets the page numbers start at 1
SkipFromZero(pageNum, limitNum) == pageNum * limitNum

\* the query object getAllPosts builds
ListQuery(category, search) ==
  [category |-> IF Truthy(category) /\ category # AllText THEN category ELSE Undef,
   search |-> IF Truthy(search) THEN search ELSE Undef,
   author |-> UndefId]

Skip(pageNum, limitNum) == (pageNum - 1) * limitNum

SortOrder(order) == IF order = Undef \/ order = Desc THEN -1 ELSE 1

Pagination(pageNum, limitNum, totalPosts) ==
  [currentPage |-> pageNum,
   totalPages |-> Ceil(totalPosts, limitNum),
   totalPosts |-> totalPosts,
   hasNext |-> pageNum < Ceil(totalPosts, limitNum),
   hasPrev |-> pageNum > 1,
   limit |-> limitNum]

\* the ids Post.find(query).sort(sortObj).skip(skip).limit(limitNum) returns
PageIds(store, query, order, pageNum, limitNum) ==
  SkipLimit(SortCreatedAt(MatchingIds(store, query), SortOrder(order)),
            Skip(pageNum, limitNum), limitNum)

\* the result object of getAllPosts, computed from the store
ListResult(store, q) ==
  LET pageNum == ParseInt(q.page, DefaultPage)
      limitNum == ParseInt(q.limit, DefaultLimit)
      query == ListQuery(q.category, q.search)
      ids == PageIds(store, query, q.order, pageNum, limitNum)
  IN [data |->
       [posts |-> [i \in 1..Len(ids) |-> Document(ids[i], store[ids[i]])],
        pagination |-> Pagination(pageNum, limitNum, Cardinality(MatchingIds(store, query)))]]

JsonResult(r) == [data |-> [posts |-> JsonPosts(r.data.posts), pagination |-> r.data.pagination]]

ListCacheKey(q) ==
  getCacheKey(TemplateText(q.page, DefaultPage), TemplateText(q.limit, DefaultLimit),
              IF q.sortBy = Undef THEN CreatedAt ELSE q.sortBy, q.category, q.search)

\* getAllPosts(req, res) with the cache client present or not
getAllPostsOutcome(q, client, fault) ==
  LET key == ListCacheKey(q)
      cached == CacheLookup(client, cache, key, fault)
      result == ListResult(posts, q)
  IN IF cached.hit
     THEN [res |-> Response(200, "Posts retrieved from cache", cached.value.data),
           cache |-> cache]
     ELSE Guarded(
            [res |-> Response(200, "Posts retrieved successfully", JsonResult(result).data),
             cache |-> CacheStore(client, cache, key, ListTTL,
                                  JSONstringify(JsonResult(result)), fault)],
            LookupFails(client, fault) \/ StoreFails(client, fault),
            "Error retrieving posts")

\* ------------------------------------------------------------- GetById
getPostByIdOutcome(id, client, fault) ==
  LET key == DetailKey(id)
      cached == CacheLookup(client, cache, key, fault)
  IN IF cached.hit
     THEN [res |-> Response(200, "Post retrieved from cache", cached.value),
           cache |-> cache]
     ELSE IF ~Exists(id)
     THEN Guarded([res |-> Response(404, "Post not found", NoData), cache |-> cache],
                  LookupFails(client, fault), "Error retrieving post")
     ELSE Guarded(
            [res |-> Response(200, "Post retrieved successfully",
                              JsonPost(Document(id, posts[id]))),
             cache |-> CacheStore(client, cache, key, DetailTTL,
                                  JSONstringify(JsonPost(Document(id, posts[id]))), fault)],
            LookupFails(client, fault) \/ StoreFails(client, fault),
            "Error retrieving post")

\* ------------------------------------------------------------ validation
\* the validators of postSchema, applied to the trimmed values
ValidTitle(title) == Trim(title) # <<>> /\ Len(Trim(title)) <= MaxTitleLen
ValidContent(content) == Trim(content) # <<>>
ValidCategory(category) == Trim(category) \in CategoryEnum

\* ------------------------------------------------------------ thumbnails
NoFile == <<>>

\* `/uploads/${req.file.filename}`, or the null of a post without thumbnail
ThumbnailPath(file) == IF file = NoFile THEN <<>> ELSE <<"/uploads/">> \o file

\* the file a thumbnail path names
FileOf(thumbnail) == thumbnail[2]

\* if (post.thumbnail) { if (fs.existsSync(p)) fs.unlinkSync(p) }
UnlinkThumbnail(fs, thumbnail) == IF thumbnail # <<>> THEN fs \ {FileOf(thumbnail)} ELSE fs

\* ---------------------------------------------------------------- events
PostCreated(id, p) ==
  [name |-> "post:created", _id |-> ObjectId(id), title |-> p.title, content |-> p.content,
   category |-> p.category, thumbnail |-> p.thumbnail, createdAt |-> DateAt(p.createdAt),
   author |-> PopulateAuthor(p.author)]

\* an event built from the post as it was before the write
PostBeforeUpdate(id, p) ==
  [name |-> "post:updated", title |-> posts[id].title,
   author |-> PopulateAuthor(posts[id].author), id |-> ObjectId(id)]

PostUpdated(id, p) ==
  [name |-> "post:updated", title |-> p.title, author |-> PopulateAuthor(p.author),
   id |-> ObjectId(id)]

PostDeleted(id, p) ==
  [name |-> "post:deleted", title |-> p.title, author |-> PopulateAuthor(p.author),
   id |-> ObjectId(id)]

\* ------------------------------------------------------------- listeners
\* the email of a user document whose email is null
Null == <<"null">>

\* no call of sendBulkEmail
NoMail == [sent |-> FALSE]

\* a JavaScript object literal, given as its key/value pairs in order: of two
\* pairs with the same key the later one stays
ObjectLiteral(pairs) ==
  [k \in {pairs[i][1] : i \in DOMAIN pairs} |->
     pairs[CHOOSE i \in DOMAIN pairs :
             pairs[i][1] = k /\ \A j \in DOMAIN pairs : pairs[j][1] = k => j <= i][2]]

\* email: { $exists: true, $ne: null, $ne: '' }
EmailCondition ==
  ObjectLiteral(<<<<"$exists", TRUE>>, <<"$ne", Null>>, <<"$ne", <<>>>>>>)

\* a field value against the operators of a query condition: $exists is about
\* the field being there, whatever its value; $ne: null is also false for a
\* field that is not there
FieldMatches(value, condition) ==
  /\ "$exists" \in DOMAIN condition => (value # Undef) = condition["$exists"]
  /\ "$ne" \in DOMAIN condition =>
       /\ value # condition["$ne"]
       /\ condition["$ne"] = Null => value # Undef

\* User.find({ isActive: true, email: {...}, _id: { $ne: author._id } }), in
\* the order of the collection
RECURSIVE FindRecipients(_, _, _)
FindRecipients(store, author, from) ==
  IF from > Cardinality(Users) THEN <<>>
  ELSE LET here == {u \in DOMAIN store :
                      /\ SeedOrder(u) = from
                      /\ store[u].isActive
                      /\ FieldMatches(store[u].email, EmailCondition)
                      /\ u # author}
       IN (IF here = {} THEN <<>> ELSE <<store[CHOOSE u \in here : TRUE].email>>)
            \o FindRecipients(store, author, from + 1)

\* the mailing part of the listeners: post:created hands the emails of the
\* users found to sendBulkEmail, if there are any; the other listeners send
\* nothing
Notification(event) ==
  IF event.name = "post:created"
       /\ FindRecipients(users, event.author._id.hex, 1) # <<>>
  THEN [sent |-> TRUE, recipients |-> FindRecipients(users, event.author._id.hex, 1)]
  ELSE NoMail

\* fs.appendFileSync(logFile, logMessage) of the listener throws
LogFails(fault) == fault = "log"

\* postEmitter.emit(name, data) runs the listeners inside the call. The
\* listeners of post:updated and post:deleted are plain functions without a
\* try/catch: what they throw, emit throws into the handler
EmitThrows(event, fault) ==
  LogFails(fault) /\ event.name \in {"post:updated", "post:deleted"}

\* the listener of post:created is an async function: what it throws before
\* its try block rejects a promise nobody handles, and the process exits on
\* 'unhandledRejection'
EmitRejects(event, fault) == LogFails(fault) /\ event.name = "post:created"

\* the handler's outer catch answers 500 after the listener threw: the store
\* write stays, the cache is not cleared
Thrown(o, message) == [o EXCEPT !.res = Response(500, message, NoData), !.cache = cache]

\* process.exit(1) on the unhandled rejection of the listener: it runs when
\* the handler first waits, which is at redisClient.keys when there is a cache
\* client - the request is never answered - and after res.json otherwise
Exited(o, client) ==
  IF client THEN [o EXCEPT !.res = NoResponse, !.cache = cache, !.notified = NoMail]
  ELSE [o EXCEPT !.notified = NoMail]

\* ---------------------------------------------------------------- Create
\* if (!title || !content || !category)
MissingField(body) == ~Truthy(body.title) \/ ~Truthy(body.content) \/ ~Truthy(body.category)

\* newPost.save() passes the schema's validators
SaveValid(body) ==
  ValidTitle(body.title) /\ ValidContent(body.content) /\ ValidCategory(body.category)

\* a document whose author and title come from the request body untouched
NewPostFromBody(userId, body, file) ==
  [title |-> body.title, content |-> Trim(body.content),
   category |-> Trim(body.category), author |-> UndefId,
   thumbnail |-> ThumbnailPath(file), createdAt |-> nextId]

\* new Post({...}): the document as the schema's setters store it
NewPost(userId, body, file) ==
  [title |-> Trim(body.title), content |-> Trim(body.content),
   category |-> Trim(body.category), author |-> userId,
   thumbnail |-> ThumbnailPath(file), createdAt |-> nextId]

Unchanged(response) ==
  [res |-> response, posts |-> posts, nextId |-> nextId, files |-> files,
   cache |-> cache, emitted |-> <<>>, notified |-> NoMail]

\* createPost(req, res); fs holds the upload already
createPostOutcome(userId, body, file, client, fault) ==
  IF MissingField(body)
  THEN Unchanged(Response(400, "Title, content, and category are required", NoData))
  ELSE IF ~SaveValid(body)
  THEN Unchanged(Response(500, "Error creating post", NoData))
  ELSE LET newPost == NewPost(userId, body, file)
           o == [res |-> Response(201, "Post created successfully",
                                  JsonPost(Document(nextId, newPost))),
                 posts |-> [i \in DOMAIN posts \cup {nextId} |->
                              IF i = nextId THEN newPost ELSE posts[i]],
                 nextId |-> nextId + 1,
                 files |-> files,
                 cache |-> ClearListCache(client, cache, fault),
                 emitted |-> <<PostCreated(nextId, newPost)>>,
                 notified |-> Notification(PostCreated(nextId, newPost))]
       IN IF EmitRejects(PostCreated(nextId, newPost), fault)
          THEN Exited(o, client)
          ELSE Guarded(o, ClearListFails(client, cache, fault), "Error creating post")

\* ---------------------------------------------------------------- Update
\* an ownership check that lets an admin through
IsAuthorOrAdmin(post, userId) == post.author = userId \/ SeedRole(userId) = "admin"

\* post.author.toString() === userId.toString()
IsAuthor(post, userId) == post.author = userId

\* an update document that sets every field of the body
PatchedEveryField(post, body, thumbnailPath) ==
  [post EXCEPT !.title = body.title, !.content = body.content,
               !.category = body.category, !.thumbnail = thumbnailPath]

\* the update document: only the truthy fields, and always the thumbnail
Patched(post, body, thumbnailPath) ==
  [post EXCEPT
     !.title = IF Truthy(body.title) THEN Trim(body.title) ELSE @,
     !.content = IF Truthy(body.content) THEN Trim(body.content) ELSE @,
     !.category = IF Truthy(body.category) THEN Trim(body.category) ELSE @,
     !.thumbnail = thumbnailPath]

\* runValidators: true validates the paths the update sets
UpdateValid(body) ==
  /\ Truthy(body.title) => ValidTitle(body.title)
  /\ Truthy(body.content) => ValidContent(body.content)
  /\ Truthy(body.category) => ValidCategory(body.category)

updatePostOutcome(userId, id, body, file, client, fault) ==
  IF ~Exists(id)
  THEN Unchanged(Response(404, "Post not found", NoData))
  ELSE IF ~IsAuthor(posts[id], userId)
  THEN Unchanged(Response(403, "You can only update your own posts", NoData))
  ELSE LET post == posts[id]
           fs == IF file # NoFile THEN UnlinkThumbnail(files, post.thumbnail) ELSE files
           thumbnailPath == IF file # NoFile THEN ThumbnailPath(file) ELSE post.thumbnail
           updatedPost == Patched(post, body, thumbnailPath)
       IN IF ~UpdateValid(body)
          THEN [Unchanged(Response(500, "Error updating post", NoData)) EXCEPT !.files = fs]
          ELSE LET o == [res |-> Response(200, "Post updated successfully",
                                          JsonPost(Document(id, updatedPost))),
                         posts |-> [posts EXCEPT ![id] = updatedPost],
                         nextId |-> nextId,
                         files |-> fs,
                         cache |-> ClearPostCache(client, cache, id, fault),
                         emitted |-> <<PostUpdated(id, updatedPost)>>,
                         notified |-> Notification(PostUpdated(id, updatedPost))]
               IN IF EmitThrows(PostUpdated(id, updatedPost), fault)
                  THEN Thrown(o, "Error updating post")
                  ELSE Guarded(o, ClearPostFails(client, fault), "Error updating post")

\* ---------------------------------------------------------------- Delete
deletePostOutcome(userId, id, client, fault) ==
  IF ~Exists(id)
  THEN Unchanged(Response(404, "Post not found", NoData))
  ELSE IF ~IsAuthor(posts[id], userId)
  THEN Unchanged(Response(403, "You can only delete your own posts", NoData))
  ELSE LET o == [res |-> Response(200, "Post deleted successfully", NoData),
                 posts |-> [i \in DOMAIN posts \ {id} |-> posts[i]],
                 nextId |-> nextId,
                 files |-> UnlinkThumbnail(files, posts[id].thumbnail),
                 cache |-> ClearPostCache(client, cache, id, fault),
                 emitted |-> <<PostDeleted(id, posts[id])>>,
                 notified |-> Notification(PostDeleted(id, posts[id]))]
       IN IF EmitThrows(PostDeleted(id, posts[id]), fault)
          THEN Thrown(o, "Error deleting post")
          ELSE Guarded(o, ClearPostFails(client, fault), "Error deleting post")

\* ----------------------------------------------------------------- users
AdminRole == <<"a","d","m","i","n">>
UserRole == <<"u","s","e","r">>
TrueText == <<"t","r","u","e">>
FalseText == <<"f","a","l","s","e">>

\* the text fields of the seed users
Username(u) ==
  CASE u = "admin" -> AdminRole
    [] u = "john_doe" -> <<"j","o","h","n","_","d","o","e">>
    [] u = "jane_smith" -> <<"j","a","n","e","_","s","m","i","t","h">>

FullName(u) ==
  CASE u = "admin" -> <<"S","y","s","t","e","m"," ","A","d","m","i","n","i","s","t","r","a","t","o","r">>
    [] u = "john_doe" -> <<"J","o","h","n"," ","D","o","e">>
    [] u = "jane_smith" -> <<"J","a","n","e"," ","S","m","i","t","h">>

Email(u) ==
  CASE u = "admin" -> <<"a","d","m","i","n","@","p","o","s","t","m","a","n","a","g","e","m","e","n","t",".","c","o","m">>
    [] u = "john_doe" -> <<"j","o","h","n","@","e","x","a","m","p","l","e",".","c","o","m">>
    [] u = "jane_smith" -> <<"j","a","n","e","@","e","x","a","m","p","l","e",".","c","o","m">>

RoleText(role) == IF role = "admin" THEN AdminRole ELSE UserRole

\* the password of a user as the store keeps it: a salted hash
PasswordHash(u) == <<"$", "2", "a", "$", u>>

\* a seed user as the store keeps it
SeedUser(u) ==
  [role |-> SeedRole(u), isActive |-> TRUE, password |-> PasswordHash(u),
   fullName |-> FullName(u), email |-> Email(u)]

\* a user document of the store `store`, every field of the schema in it
StoredUser(store, u) ==
  [_id |-> ObjectId(u), username |-> u, password |-> store[u].password,
   role |-> store[u].role, fullName |-> store[u].fullName, email |-> store[u].email,
   isActive |-> store[u].isActive, createdAt |-> DateAt(SeedOrder(u))]

\* a projection that keeps every field
SelectEveryField(doc) == doc

\* .select('-password')
SelectWithoutPassword(doc) == [f \in DOMAIN doc \ {"password"} |-> doc[f]]

\* a user as User.find(...).select('-password').lean() returns it
UserDocument(u) == SelectWithoutPassword(StoredUser(users, u))

\* the query object getAllUsers builds
UserQuery(role, search, isActive) ==
  [role |-> IF Truthy(role) /\ role \in {AdminRole, UserRole} THEN role ELSE Undef,
   search |-> IF Truthy(search) THEN search ELSE Undef,
   isActive |-> IF isActive # Undef
                THEN (IF isActive = TrueText THEN "true" ELSE "false")
                ELSE "any"]

UserMatches(u, query) ==
  /\ query.role = Undef \/ RoleText(users[u].role) = query.role
  /\ query.search = Undef
       \/ RegexMatchI(Username(u), query.search)
       \/ RegexMatchI(users[u].fullName, query.search)
       \/ RegexMatchI(users[u].email, query.search)
  /\ query.isActive = "any" \/ users[u].isActive = (query.isActive = "true")

MatchingUsers(query) == {u \in DOMAIN users : UserMatches(u, query)}

\* .sort({ createdAt: -1 })
RECURSIVE SortUsers(_)
SortUsers(S) ==
  IF S = {} THEN <<>>
  ELSE LET first == CHOOSE u \in S : \A v \in S : SeedOrder(u) >= SeedOrder(v)
       IN <<first>> \o SortUsers(S \ {first})

UserPagination(pageNum, limitNum, totalUsers) ==
  [currentPage |-> pageNum,
   totalPages |-> Ceil(totalUsers, limitNum),
   totalUsers |-> totalUsers,
   hasNext |-> pageNum < Ceil(totalUsers, limitNum),
   hasPrev |-> pageNum > 1,
   limit |-> limitNum]

\* getAllUsers(req, res)
getAllUsersOutcome(q) ==
  LET pageNum == ParseInt(q.page, DefaultPage)
      limitNum == ParseInt(q.limit, DefaultLimit)
      query == UserQuery(q.role, q.search, q.isActive)
      found == SkipLimit(SortUsers(MatchingUsers(query)), Skip(pageNum, limitNum), limitNum)
  IN Response(200, "Users retrieved successfully",
              [users |-> [i \in 1..Len(found) |-> UserDocument(found[i])],
               pagination |->
                 UserPagination(pageNum, limitNum, Cardinality(MatchingUsers(query)))])

\* a JSON body value: its type and its text
JsonBoolean(text) == [t |-> "boolean", v |-> text]
JsonString(text) == [t |-> "string", v |-> text]
JsonNumber(text) == [t |-> "number", v |-> text]

\* isActive === false
StrictlyFalse(value) == value.t = "boolean" /\ value.v = FalseText

\* JavaScript truthiness of a body value
TruthyValue(value) ==
  CASE value.t = "boolean" -> value.v = TrueText
    [] value.t = "string" -> value.v # <<>>
    [] value.t = "number" -> value.v # <<"0">>

\* the cast of a value to the Boolean path isActive of the User schema
CastBoolean(value) ==
  IF value.v \in {TrueText, <<"1">>, <<"y","e","s">>} THEN [ok |-> TRUE, value |-> TRUE]
  ELSE IF value.v \in {FalseText, <<"0">>, <<"n","o">>} THEN [ok |-> TRUE, value |-> FALSE]
  ELSE [ok |-> FALSE]

\* updateUserStatus(req, res) for the caller userId
updateUserStatusOutcome(userId, id, isActive) ==
  IF id = userId /\ StrictlyFalse(isActive)
  THEN [res |-> Response(400, "You cannot deactivate your own account", NoData),
        users |-> users]
  ELSE IF ~CastBoolean(isActive).ok
  THEN [res |-> Response(500, "Error updating user status", NoData), users |-> users]
  ELSE IF id \notin DOMAIN users
  THEN [res |-> Response(404, "User not found", NoData), users |-> users]
  ELSE LET updated == [users EXCEPT ![id].isActive = CastBoolean(isActive).value]
       IN [res |-> Response(200,
                            IF TruthyValue(isActive) THEN "User activated successfully"
                            ELSE "User deactivated successfully",
                            SelectWithoutPassword(StoredUser(updated, id))),
           users |-> updated]

\* -------------------------------------------------------- authentication
\* req.user of a request no middleware attached an identity to
NoUser == [absent |-> TRUE]

\* a list of public routes that holds every path of the service
EveryPath == {"/login", "/register", "/profile"}

\* const publicRoutes = ['/login', '/register']
publicRoutes == {"/login", "/register"}

BearerPrefix == <<"B", "e", "a", "r", "e", "r", " ">>

\* s.startsWith(prefix)
StartsWith(s, prefix) == Len(s) >= Len(prefix) /\ SubSeq(s, 1, Len(prefix)) = prefix

\* s.substring(from)
Substring(s, from) == SubSeq(s, from + 1, Len(s))

\* a token text: signed with the secret for the user id and unexpired, signed
\* and past its expiry, or signed with another secret
SignedToken(id) == <<"signed", id>>
ExpiredToken(id) == <<"expired", id>>
ForgedToken(id) == <<"forged", id>>

\* jwt.verify(token, process.env.JWT_SECRET): the decoded payload, or the
\* name of the error it throws
jwtVerify(token) ==
  IF Len(token) = 2 /\ token[1] = "signed"
  THEN [ok |-> TRUE, decoded |-> [id |-> token[2]]]
  ELSE IF Len(token) = 2 /\ token[1] = "expired"
  THEN [ok |-> FALSE, name |-> "TokenExpiredError"]
  ELSE [ok |-> FALSE, name |-> "JsonWebTokenError"]

\* User.findById(id) resolves to a document
UserFound(store, id) == id \in DOMAIN store

\* verifyToken(req, res, next): whether it calls next, the req.user it
\* leaves, and the response it sends when it does not call next; `db` tells
\* whether the store answers the lookup
verifyTokenOutcome(path, authHeader, db) ==
  IF path \in publicRoutes
  THEN [next |-> TRUE, user |-> NoUser, res |-> NoResponse]
  ELSE IF ~Truthy(authHeader) \/ ~StartsWith(authHeader, BearerPrefix)
  THEN [next |-> FALSE, user |-> NoUser,
        res |-> Response(401, "Access denied. No token provided or invalid token format.",
                         NoData)]
  ELSE LET verified == jwtVerify(Substring(authHeader, 7))
       IN IF ~verified.ok
          THEN [next |-> FALSE, user |-> NoUser,
                res |-> Response(401,
                                 IF verified.name = "JsonWebTokenError"
                                 THEN "Invalid token." ELSE "Token expired.",
                                 NoData)]
          ELSE IF db = "fails"
          THEN [next |-> FALSE, user |-> NoUser,
                res |-> Response(500, "Token verification failed.", NoData)]
          ELSE IF ~UserFound(users, verified.decoded.id)
          THEN [next |-> FALSE, user |-> NoUser,
                res |-> Response(401, "Invalid token. User not found.", NoData)]
          ELSE [next |-> TRUE, user |-> UserDocument(verified.decoded.id),
                res |-> NoResponse]

\* a gate that lets every identity through
AnyUser(user) == TRUE

\* req.user.role === 'admin'
HasAdminRole(user) == user.role = "admin"

\* req.user.isActive
HasActiveAccount(user) == user.isActive

\* isAdmin(req, res, next)
isAdminOutcome(user) ==
  IF user = NoUser
  THEN [next |-> FALSE,
        res |-> Response(401, "Access denied. User not authenticated.", NoData)]
  ELSE IF ~HasAdminRole(user)
  THEN [next |-> FALSE,
        res |-> Response(403, "Access denied. Admin privileges required.", NoData)]
  ELSE [next |-> TRUE, res |-> NoResponse]

\* isActiveUser(req, res, next)
isActiveUserOutcome(user) ==
  IF user = NoUser
  THEN [next |-> FALSE,
        res |-> Response(401, "Access denied. User not authenticated.", NoData)]
  ELSE IF ~HasActiveAccount(user)
  THEN [next |-> FALSE,
        res |-> Response(403, "Access denied. Account is deactivated.", NoData)]
  ELSE [next |-> TRUE, res |-> NoResponse]

\* getProfile(req, res); reading req.user._id of an absent req.user throws
getProfileOutcome(user) ==
  IF user = NoUser THEN Response(500, "Error retrieving profile", NoData)
  ELSE IF user._id.hex \notin DOMAIN users THEN Response(404, "User not found", NoData)
  ELSE Response(200, "Profile retrieved successfully", UserDocument(user._id.hex))

\* getUserById(req, res)
getUserByIdOutcome(id) ==
  IF id \notin DOMAIN users THEN Response(404, "User not found", NoData)
  ELSE Response(200, "User retrieved successfully", UserDocument(id))

\* the update document of updateProfile applied to a stored user
ProfilePatched(u, body) ==
  [u EXCEPT !.fullName = IF Truthy(body.fullName) THEN body.fullName ELSE @,
            !.email = IF Truthy(body.email) THEN body.email ELSE @]

\* updateProfile(req, res)
updateProfileOutcome(user, body) ==
  IF user = NoUser
  THEN [res |-> Response(500, "Error updating profile", NoData), users |-> users]
  ELSE IF user._id.hex \notin DOMAIN users
  THEN [res |-> Response(404, "User not found", NoData), users |-> users]
  ELSE LET id == user._id.hex
           updated == [users EXCEPT ![id] = ProfilePatched(@, body)]
       IN [res |-> Response(200, "Profile updated successfully",
                            SelectWithoutPassword(StoredUser(updated, id))),
           users |-> updated]

\* ------------------------------------------------------------- bulk mail
\* a sendEmail whose failure leaves the function as an exception
sendEmailUncaught(to, sendMail) ==
  IF sendMail = "resolves" THEN [settled |-> "fulfilled", value |-> [to |-> to, success |-> TRUE]]
  ELSE [settled |-> "rejected"]

\* sendEmail(to, subject, htmlContent): the promise it returns is fulfilled
\* with { success: true } or, from the catch block, with { success: false }
sendEmailOutcome(to, sendMail) ==
  [settled |-> "fulfilled", value |-> [to |-> to, success |-> sendMail = "resolves"]]

\* the indexes of recipients.slice(i, i + batchSize)
Batch(i, recipients) == {k \in DOMAIN recipients : i < k /\ k <= i + batchSize}

\* a delay after every batch
DelayAfterEveryBatch(i, recipients) == TRUE

\* if (i + batchSize < recipients.length)
DelayNeeded(i, recipients) == i + batchSize < Len(recipients)

\* results.filter(r => r.success).length and results.filter(r => !r.success).length
Count(results, success) ==
  Cardinality({k \in DOMAIN results : results[k].success = success})

\* results.push(...batchResults): the values of the batch in the order of the batch
RECURSIVE Pushed(_, _, _)
Pushed(results, settled, batch) ==
  IF batch = {} THEN results
  ELSE Pushed(Append(results, settled[Min(batch)].value), settled, batch \ {Min(batch)})

\* query.author as exportPostsToCSV sets it: the caller for a non-admin, the
\* author parameter for an admin who gives one
ExportAuthorAnyRole(role, userId, author) ==
  IF author # UndefId THEN author ELSE IF role # "admin" THEN userId ELSE UndefId

ExportAuthor(role, userId, author) ==
  IF author # UndefId /\ role = "admin" THEN author
  ELSE IF role # "admin" THEN userId ELSE UndefId

\* the query object exportPostsToCSV builds
ExportQuery(userId, q) ==
  [category |-> IF Truthy(q.category) /\ q.category # AllText THEN q.category ELSE Undef,
   search |-> IF Truthy(q.search) THEN q.search ELSE Undef,
   author |-> ExportAuthor(users[userId].role, userId, q.author),
   from |-> IF Truthy(q.startDate) THEN q.startDate ELSE Undef,
   to |-> IF Truthy(q.endDate) THEN q.endDate ELSE Undef]

\* query.createdAt = { $gte: new Date(startDate), $lte: new Date(endDate) };
\* a date is the creation order it stands for
InRange(p, query) ==
  /\ query.from = Undef \/ ParseInt(query.from, 0) <= p.createdAt
  /\ query.to = Undef \/ p.createdAt <= ParseInt(query.to, 0)

ExportIds(store, query) ==
  SortCreatedAt({id \in MatchingIds(store, query) : InRange(store[id], query)}, -1)

\* one record of csvData
CsvRow(id, p) ==
  [id |-> id, title |-> p.title, category |-> p.category, authorUsername |-> p.author]

\* `posts_export_${timestamp}.csv`
ExportFilename(timestamp) == <<"posts_export_", timestamp, ".csv">>

\* exportPostsToCSV(req, res) at the clock reading `timestamp`; `download`
\* tells whether res.download delivers the file or calls back with an error
exportPostsToCSVOutcome(userId, q, timestamp, download) ==
  LET ids == ExportIds(posts, ExportQuery(userId, q))
      rows == [i \in 1..Len(ids) |-> CsvRow(ids[i], posts[ids[i]])]
      filename == ExportFilename(timestamp)
      written == [f \in DOMAIN exportsDir \cup {filename} |->
                    IF f = filename THEN rows ELSE exportsDir[f]]
  IN IF Len(ids) = 0
     THEN [res |-> Response(404, "No posts found for export", NoData),
           exportsDir |-> exportsDir, timers |-> timers]
     ELSE IF download = "fails"
     THEN [res |-> Response(500, "Error downloading file", NoData),
           exportsDir |-> written, timers |-> timers]
     ELSE [res |-> Response(200, "", [filename |-> filename, rows |-> written[filename]]),
           exportsDir |-> written, timers |-> timers \cup {filename}]

\* ---------------------------------------------------------------- inputs
TitleA == <<"A">>
TitleB == <<"B">>
PaddedA == <<" ", "A", " ">>
Blank == <<" ">>
LongTitle == [i \in 1..(MaxTitleLen + 1) |-> "A"]
ContentB == <<"b">>
One == <<"1">>
Two == <<"2">>

Body(title, content, category) == [title |-> title, content |-> content, category |-> category]

ValidBodies == {Body(PaddedA, ContentB, Tech), Body(TitleB, ContentB, Other)}

\* a missing title, an empty content, a missing category, a category outside the enum
InvalidBodies ==
  {Body(Undef, ContentB, Tech), Body(TitleA, <<>>, Tech), Body(TitleA, ContentB, Undef),
   Body(TitleA, ContentB, Sports)}

CreateBodies == ValidBodies \cup InvalidBodies

\* the patches of an update: a new title, or a category outside the enum
UpdateBodies == {Body(TitleB, Undef, Undef), Body(Undef, Undef, Sports)}

\* patches that give some fields and leave others out or empty: a title and a
\* category with an empty content, a padded title, a content alone, a category
\* outside the enum
FrameBodies ==
  {Body(TitleB, <<>>, Other), Body(PaddedA, Undef, Undef), Body(Undef, ContentB, Undef),
   Body(Undef, Undef, Sports)}

\* the users that write posts
Authors == {"john_doe", "jane_smith"}

\* the user that creates posts while the service runs
Creators == {"john_doe"}

ListRequests ==
  [page : {Undef}, limit : {One}, sortBy : {Undef}, order : {Undef},
   category : {Undef, Tech}, search : {Undef}]

\* the List requests that differ in what the cache key leaves out or folds:
\* the order, and a search for the word the key uses for "no search"
KeyRequests ==
  [page : {Undef}, limit : {One}, sortBy : {Undef}, order : {Undef, Asc, Desc},
   category : {Undef}, search : {Undef, NoneText}]

Three == <<"3">>

\* the List requests that page through a store
PageRequests ==
  [page : {Undef, Two, Three}, limit : {One, Two}, sortBy : {Undef}, order : {Undef, Asc},
   category : {Undef, Tech}, search : {Undef}]

UserListRequests ==
  [page : {Undef, Two, Three}, limit : {One, Two}, role : {Undef, UserRole},
   search : {Undef, <<"J">>}, isActive : {Undef, TrueText}]

\* isActive of a status request: true, false, "false", 0, "maybe"
StatusValues ==
  {JsonBoolean(TrueText), JsonBoolean(FalseText), JsonString(FalseText), JsonNumber(<<"0">>),
   JsonString(<<"m","a","y","b","e">>)}

\* the ids a status request names: the users and an id no user has
TargetIds == Users \cup {"nobody"}

Admins == {u \in DOMAIN users : users[u].role = "admin"}

\* the paths of the requests that reach verifyToken
AuthPaths == {"/login", "/register", "/profile"}

Bearer(token) == BearerPrefix \o token

\* Authorization headers: none, the scheme in lower case, no token after the
\* scheme, and tokens signed for a user, for an id no user has, expired and
\* forged
AuthHeaders ==
  {Undef, <<"b", "e", "a", "r", "e", "r", " ">> \o SignedToken("admin"), Bearer(<<>>),
   Bearer(SignedToken("admin")), Bearer(SignedToken("john_doe")),
   Bearer(SignedToken("nobody")), Bearer(ExpiredToken("admin")),
   Bearer(ForgedToken("admin"))}

\* the store may fail the lookup of a token's user
LookupOutcomes(authHeader) ==
  IF StartsWith(authHeader, BearerPrefix) /\ jwtVerify(Substring(authHeader, 7)).ok
  THEN {"answers", "fails"}
  ELSE {"answers"}

Middleware == {"verifyToken", "isAdmin", "isActiveUser"}

Handlers == {"getProfile", "updateProfile", "getAllUsers", "getUserById", "updateUserStatus"}

\* the chains of gates a route may mount in front of its handler
Route(gates, handler) == [gates |-> gates, handler |-> handler]

Routes ==
  {Route(<<>>, "getProfile"), Route(<<"isActiveUser">>, "updateProfile"),
   Route(<<"isAdmin">>, "getAllUsers"), Route(<<"isAdmin">>, "getUserById"),
   Route(<<"isActiveUser", "isAdmin">>, "updateUserStatus")}

EmailB == <<"j", "@", "d">>

\* bodies of updateProfile: an email with an empty full name, and no field
ProfileBodies ==
  {[fullName |-> <<>>, email |-> EmailB], [fullName |-> Undef, email |-> Undef]}

\* the recipient lists of sendBulkEmail: the addresses 1..n, for each n
RecipientLists == {[k \in 1..n |-> k] : n \in 0..MaxRecipients}

ExportRequests ==
  [category : {Undef, Tech}, search : {Undef}, author : {UndefId, "jane_smith"},
   startDate : {Undef}, endDate : {Undef}]

ExportCallers == {"admin", "john_doe"}

Clock == 0..MaxClock

\* a post as an earlier Create stored it
StoredPost(i, author, category) ==
  [title |-> TitleA, content |-> ContentB, category |-> category, author |-> author,
   thumbnail |-> <<>>, createdAt |-> i]

\* the stores of at most `max` posts by `authors` in `categories`
Stores(max, authors, categories) ==
  UNION {{[i \in 1..n |-> StoredPost(i, f[i][1], f[i][2])] :
            f \in [1..n -> authors \X categories]} : n \in 0..max}

\* the cache faults a read (get, setEx) and a write (keys, del) can meet
ReadFaults(faults) == IF redisClient THEN faults \ {"keys", "del"} ELSE {"none"}
WriteFaults(faults) ==
  IF redisClient THEN faults \ {"get", "garbage", "set"} ELSE faults \cap {"none", "log"}

\* the multipart upload: no file, or a file stored under a fresh name
UploadChoices == {NoFile} \cup (IF nextFile <= MaxFiles THEN {<<nextFile>>} ELSE {})

Uploaded(file) == IF file = NoFile THEN {} ELSE {file[1]}

\* ------------------------------------------------------------------- Init
\* no call of sendBulkEmail in progress
Idle == [phase |-> "idle"]

\* history flags: cleared - this write deleted a cached list page; afterWrite -
\* this List follows such a write; repeat - this List repeats the query of the
\* List before it, which the store answered
NoHist == [cleared |-> FALSE, afterWrite |-> FALSE, repeat |-> FALSE]

Succeeded(response) == response.status \in {200, 201}

Init ==
  /\ users = [u \in Users |-> SeedUser(u)]
  /\ posts = <<>>
  /\ nextId = 1
  /\ files = {}
  /\ nextFile = 1
  /\ redisClient \in BOOLEAN
  /\ cache = <<>>
  /\ req = [op |-> "none"]
  /\ res = NoResponse
  /\ emitted = <<>>
  /\ notified = NoMail
  /\ mail = Idle
  /\ exportsDir = <<>>
  /\ timers = {}
  /\ returned = <<>>
  /\ deletedOK = <<>>
  /\ hist = NoHist
  /\ running = <<>>

\* a store filled by earlier requests, no cache client, the users of
\* `inactive` deactivated or not
InitStore(stores, inactive) ==
  /\ users \in {[u \in Users |-> [SeedUser(u) EXCEPT !.isActive = u \notin S]] :
                  S \in SUBSET inactive}
  /\ posts \in stores
  /\ nextId = Len(posts) + 1
  /\ files = {}
  /\ nextFile = 1
  /\ redisClient = FALSE
  /\ cache = <<>>
  /\ req = [op |-> "none"]
  /\ res = NoResponse
  /\ emitted = <<>>
  /\ notified = NoMail
  /\ mail = Idle
  /\ exportsDir = <<>>
  /\ timers = {}
  /\ returned = <<>>
  /\ deletedOK = <<>>
  /\ hist = NoHist
  /\ running = <<>>

\* ---------------------------------------------------------------- actions
\* each request, with the cache faults it may meet drawn from `faults`
getAllPosts(requests, faults) ==
  \E q \in requests, fault \in ReadFaults(faults) :
    LET o == getAllPostsOutcome(q, redisClient, fault)
    IN /\ req' = [op |-> "getAllPosts", query |-> q, fault |-> fault]
       /\ res' = o.res
       /\ cache' = o.cache
       /\ emitted' = <<>>
       /\ notified' = NoMail
       /\ mail' = mail
       /\ hist' = [cleared |-> FALSE,
                   afterWrite |-> hist.cleared,
                   repeat |-> /\ req.op = "getAllPosts"
                              /\ req.query = q
                              /\ res.message = "Posts retrieved successfully"]
       /\ UNCHANGED <<users, posts, nextId, files, nextFile, redisClient, running,
                      exportsDir, timers, returned, deletedOK>>

getPostById(faults) ==
  \E id \in PostIds, fault \in ReadFaults(faults) :
    LET o == getPostByIdOutcome(id, redisClient, fault)
    IN /\ req' = [op |-> "getPostById", id |-> id, fault |-> fault]
       /\ res' = o.res
       /\ cache' = o.cache
       /\ emitted' = <<>>
       /\ notified' = NoMail
       /\ mail' = mail
       /\ hist' = NoHist
       /\ UNCHANGED <<users, posts, nextId, files, nextFile, redisClient, running,
                      exportsDir, timers, returned, deletedOK>>

Apply(o, file) ==
  /\ res' = o.res
  /\ posts' = o.posts
  /\ nextId' = o.nextId
  /\ files' = o.files \cup Uploaded(file)
  /\ nextFile' = IF file = NoFile THEN nextFile ELSE nextFile + 1
  /\ cache' = o.cache
  /\ emitted' = o.emitted
  /\ notified' = o.notified
  /\ mail' = mail
  /\ hist' = [NoHist EXCEPT !.cleared = Succeeded(o.res) /\ o.cache # cache
                                         /\ ListKeys(cache) # {}]
  /\ UNCHANGED <<users, redisClient, running, exportsDir, timers>>

\* history: forget what Create returned once the post is updated or deleted
Forget(id, response) ==
  IF Succeeded(response) THEN [i \in DOMAIN returned \ {id} |-> returned[i]] ELSE returned

createPost(faults) ==
  \E user \in Creators, body \in CreateBodies, file \in UploadChoices,
     fault \in WriteFaults(faults) :
    /\ nextId <= MaxPosts
    /\ req' = [op |-> "createPost", user |-> user, body |-> body, file |-> file,
               fault |-> fault]
    /\ LET o == createPostOutcome(user, body, file, redisClient, fault)
       IN /\ Apply(o, file)
          /\ returned' = IF Succeeded(o.res)
                          THEN [i \in DOMAIN returned \cup {nextId} |->
                                  IF i = nextId THEN o.res.data ELSE returned[i]]
                          ELSE returned
          /\ UNCHANGED deletedOK

updatePostWith(bodies, faults) ==
  \E user \in Users, id \in PostIds, body \in bodies, file \in UploadChoices,
     fault \in WriteFaults(faults) :
    /\ req' = [op |-> "updatePost", user |-> user, id |-> id, body |-> body,
               file |-> file, fault |-> fault]
    /\ LET o == updatePostOutcome(user, id, body, file, redisClient, fault)
       IN /\ Apply(o, file)
          /\ returned' = Forget(id, o.res)
          /\ UNCHANGED deletedOK

updatePost(faults) == updatePostWith(UpdateBodies, faults)

deletePost(faults) ==
  \E user \in Users, id \in PostIds, fault \in WriteFaults(faults) :
    /\ req' = [op |-> "deletePost", user |-> user, id |-> id, fault |-> fault]
    /\ LET o == deletePostOutcome(user, id, redisClient, fault)
       IN /\ Apply(o, NoFile)
          /\ returned' = Forget(id, o.res)
          /\ deletedOK' = IF Succeeded(o.res)
                           THEN [i \in DOMAIN deletedOK \cup {id} |->
                                   IF i = id THEN DetailKey(id) \in DOMAIN cache
                                   ELSE deletedOK[i]]
                           ELSE deletedOK

\* a cached entry reaches the end of its time to live; no request is being
\* answered then
Expire ==
  \E k \in DOMAIN cache :
    /\ cache' = Del(cache, {k})
    /\ req' = [op |-> "expire"]
    /\ res' = NoResponse
    /\ emitted' = <<>>
    /\ notified' = NoMail
    /\ mail' = mail
    /\ hist' = NoHist
    /\ UNCHANGED <<users, posts, nextId, files, nextFile, redisClient, running, exportsDir,
                   timers, returned, deletedOK>>

getAllUsers ==
  \E q \in UserListRequests :
    /\ req' = [op |-> "getAllUsers", query |-> q]
    /\ res' = getAllUsersOutcome(q)
    /\ emitted' = <<>>
    /\ notified' = NoMail
    /\ mail' = mail
    /\ hist' = NoHist
    /\ UNCHANGED <<users, posts, nextId, files, nextFile, redisClient, running, cache,
                   exportsDir, timers, returned, deletedOK>>

updateUserStatus ==
  \E user \in Admins, id \in TargetIds, isActive \in StatusValues :
    LET o == updateUserStatusOutcome(user, id, isActive)
    IN /\ req' = [op |-> "updateUserStatus", user |-> user, id |-> id,
                  isActive |-> isActive]
       /\ res' = o.res
       /\ users' = o.users
       /\ emitted' = <<>>
       /\ notified' = NoMail
       /\ mail' = mail
       /\ hist' = NoHist
       /\ UNCHANGED <<posts, nextId, files, nextFile, redisClient, running, cache,
                      exportsDir, timers, returned, deletedOK>>

exportPostsToCSV ==
  \E user \in ExportCallers, q \in ExportRequests, timestamp \in Clock,
     download \in {"delivers", "fails"} :
    LET o == exportPostsToCSVOutcome(user, q, timestamp, download)
    IN /\ req' = [op |-> "exportPostsToCSV", user |-> user, query |-> q,
                  timestamp |-> timestamp, download |-> download]
       /\ res' = o.res
       /\ exportsDir' = o.exportsDir
       /\ timers' = o.timers
       /\ emitted' = <<>>
       /\ notified' = NoMail
       /\ mail' = mail
       /\ hist' = NoHist
       /\ UNCHANGED <<users, posts, nextId, files, nextFile, redisClient, running, cache,
                      returned, deletedOK>>

\* the setTimeout callback of a delivered export: unlink the file if it exists
cleanupExport ==
  \E f \in timers :
    /\ exportsDir' = [g \in DOMAIN exportsDir \ {f} |-> exportsDir[g]]
    /\ timers' = timers \ {f}
    /\ req' = [op |-> "cleanupExport"]
    /\ res' = NoResponse
    /\ emitted' = <<>>
    /\ notified' = NoMail
    /\ mail' = mail
    /\ hist' = NoHist
    /\ UNCHANGED <<users, posts, nextId, files, nextFile, redisClient, running, cache,
                   returned, deletedOK>>

\* the chain of the request before has not ended: a middleware called next
\* and the next function of the chain has not run
InChain == req.op \in Middleware /\ req.next

\* the request enters the chain: verifyToken runs first. The route files are
\* not part of the sources, so the gates in front of a handler are drawn
verifyToken ==
  \E path \in AuthPaths, authHeader \in AuthHeaders, route \in Routes :
    \E db \in LookupOutcomes(authHeader) :
    LET o == verifyTokenOutcome(path, authHeader, db)
    IN /\ ~InChain
       /\ req' = [op |-> "verifyToken", path |-> path, authHeader |-> authHeader,
                  db |-> db, gates |-> route.gates, handler |-> route.handler,
                  passed |-> 0, next |-> o.next, user |-> o.user]
       /\ res' = o.res
       /\ emitted' = <<>>
       /\ notified' = NoMail
       /\ mail' = mail
       /\ hist' = NoHist
       /\ UNCHANGED <<users, posts, nextId, files, nextFile, redisClient, running, cache,
                      exportsDir, timers, returned, deletedOK>>

\* the middleware before called next and the gate `gate` is the next of the chain
AtGate(gate) ==
  /\ InChain
  /\ req.passed < Len(req.gates)
  /\ req.gates[req.passed + 1] = gate

Gate(gate, o) ==
  /\ AtGate(gate)
  /\ req' = [req EXCEPT !.op = gate, !.passed = @ + 1, !.next = o.next]
  /\ res' = o.res
  /\ UNCHANGED <<users, posts, nextId, files, nextFile, redisClient, running, cache, emitted,
                 notified, mail, exportsDir, timers, returned, deletedOK, hist>>

isAdmin == Gate("isAdmin", isAdminOutcome(req.user))

isActiveUser == Gate("isActiveUser", isActiveUserOutcome(req.user))

\* every middleware of the chain called next and the route's handler is `handler`
Routed(handler) ==
  /\ InChain
  /\ req.passed = Len(req.gates)
  /\ req.handler = handler

getProfile ==
  /\ Routed("getProfile")
  /\ req' = [op |-> "getProfile", user |-> req.user]
  /\ res' = getProfileOutcome(req.user)
  /\ UNCHANGED <<users, posts, nextId, files, nextFile, redisClient, running, cache, emitted,
                 notified, mail, exportsDir, timers, returned, deletedOK, hist>>

getUserById ==
  \E id \in TargetIds :
    /\ Routed("getUserById")
    /\ req' = [op |-> "getUserById", user |-> req.user, id |-> id]
    /\ res' = getUserByIdOutcome(id)
    /\ UNCHANGED <<users, posts, nextId, files, nextFile, redisClient, running, cache,
                   emitted, notified, mail, exportsDir, timers, returned, deletedOK, hist>>

updateProfile ==
  \E body \in ProfileBodies :
    LET o == updateProfileOutcome(req.user, body)
    IN /\ Routed("updateProfile")
       /\ req' = [op |-> "updateProfile", user |-> req.user, body |-> body]
       /\ res' = o.res
       /\ users' = o.users
       /\ UNCHANGED <<posts, nextId, files, nextFile, redisClient, running, cache, emitted,
                      notified, mail, exportsDir, timers, returned, deletedOK, hist>>

\* sendBulkEmail(recipients, subject, htmlContent) is called; one call runs at
\* a time
sendBulkEmail ==
  \E recipients \in RecipientLists :
    /\ mail.phase \in {"idle", "returned", "threw"}
    /\ mail' = [phase |-> "loop", recipients |-> recipients, i |-> 0, pending |-> {},
                settled |-> <<>>, results |-> <<>>,
                attempts |-> [k \in DOMAIN recipients |-> 0], delays |-> 0]
    /\ UNCHANGED <<users, posts, nextId, files, nextFile, redisClient, running, cache, req,
                   res, emitted, notified, exportsDir, timers, returned, deletedOK, hist>>

\* the loop test holds: batch.map(email => sendEmail(...)) starts the sends
\* of the batch
startBatch ==
  /\ mail.phase = "loop"
  /\ mail.i < Len(mail.recipients)
  /\ mail' = [mail EXCEPT
                !.phase = "sending",
                !.pending = Batch(mail.i, mail.recipients),
                !.settled = <<>>,
                !.attempts = [k \in DOMAIN @ |->
                                IF k \in Batch(mail.i, mail.recipients) THEN @[k] + 1
                                ELSE @[k]]]
  /\ UNCHANGED <<users, posts, nextId, files, nextFile, redisClient, running, cache, req,
                 res, emitted, notified, exportsDir, timers, returned, deletedOK, hist>>

\* transporter.sendMail of one send of the batch resolves or rejects, and the
\* promise of its sendEmail settles
sendEmail ==
  /\ mail.phase = "sending"
  /\ \E k \in mail.pending, sendMail \in {"resolves", "rejects"} :
       mail' = [mail EXCEPT
                  !.pending = @ \ {k},
                  !.settled = [j \in DOMAIN @ \cup {k} |->
                                 IF j = k THEN sendEmailOutcome(mail.recipients[k], sendMail)
                                 ELSE @[j]]]
  /\ UNCHANGED <<users, posts, nextId, files, nextFile, redisClient, running, cache, req,
                 res, emitted, notified, exportsDir, timers, returned, deletedOK, hist>>

\* await Promise.all(batchPromises) goes on: with the results pushed, to the
\* delay or to the next loop test; a rejected promise ends the call with its
\* exception
batchSettled ==
  /\ mail.phase = "sending"
  /\ \/ /\ \E k \in DOMAIN mail.settled : mail.settled[k].settled = "rejected"
        /\ mail' = [mail EXCEPT !.phase = "threw"]
     \/ /\ mail.pending = {}
        /\ \A k \in DOMAIN mail.settled : mail.settled[k].settled = "fulfilled"
        /\ mail' = [mail EXCEPT
                      !.results = Pushed(@, mail.settled, DOMAIN mail.settled),
                      !.phase = IF DelayNeeded(mail.i, mail.recipients) THEN "delay"
                                ELSE "loop",
                      !.i = IF DelayNeeded(mail.i, mail.recipients) THEN @
                            ELSE @ + batchSize]
  /\ UNCHANGED <<users, posts, nextId, files, nextFile, redisClient, running, cache, req,
                 res, emitted, notified, exportsDir, timers, returned, deletedOK, hist>>

\* the timer of the delay between batches fires
delayElapsed ==
  /\ mail.phase = "delay"
  /\ mail' = [mail EXCEPT !.phase = "loop", !.i = @ + batchSize, !.delays = @ + 1]
  /\ UNCHANGED <<users, posts, nextId, files, nextFile, redisClient, running, cache, req,
                 res, emitted, notified, exportsDir, timers, returned, deletedOK, hist>>

\* the loop test fails: return { results, successCount, failCount }
returnResults ==
  /\ mail.phase = "loop"
  /\ mail.i >= Len(mail.recipients)
  /\ mail' = [phase |-> "returned", recipients |-> mail.recipients,
              attempts |-> mail.attempts, delays |-> mail.delays,
              value |-> [results |-> mail.results,
                         successCount |-> Count(mail.results, TRUE),
                         failCount |-> Count(mail.results, FALSE)]]
  /\ UNCHANGED <<users, posts, nextId, files, nextFile, redisClient, running, cache, req,
                 res, emitted, notified, exportsDir, timers, returned, deletedOK, hist>>

\* ---------------------------------------------------- overlapping requests
\* A handler is an async function: it runs up to its next await, and the
\* store, the cache or the disk completes the awaited call some time later.
\* Between the two, the steps of other handlers run. Each action below is one
\* such step of the handler in slot p: the completion of the call it waits
\* for, and the synchronous code that follows up to the next await.
Slots == 1..MaxOverlap

\* a slot no handler has used
Free == [op |-> "none", pc |-> "free"]

\* slot p can take a request: no handler in it, or one that has answered
Vacant(p) == running[p].pc \in {"free", "done"}

At(p, op, pc) == running[p].op = op /\ running[p].pc = pc

Set(p, r) == running' = [running EXCEPT ![p] = r]

\* res.status(...).json(...), the last statement of every path
Answer(r, response) == [r EXCEPT !.pc = "done", !.res = response]

\* what no step of an overlapping handler touches
Aside ==
  UNCHANGED <<users, nextId, redisClient, req, res, emitted, notified, mail, returned,
              deletedOK, hist>>

\* getPostById is called: the synchronous part up to redisClient.get, or up
\* to Post.findById without a cache client
beginGetPostById(ids) ==
  \E p \in DOMAIN running, id \in ids :
    /\ Vacant(p)
    /\ Set(p, [op |-> "getPostById", pc |-> IF redisClient THEN "get" ELSE "findById",
               id |-> id, res |-> NoResponse, emitted |-> <<>>])
    /\ Aside
    /\ UNCHANGED <<posts, files, nextFile, cache, exportsDir, timers>>

\* await redisClient.get(cacheKey) completes
cacheGet ==
  \E p \in DOMAIN running :
    /\ At(p, "getPostById", "get")
    /\ LET r == running[p]
           cached == CacheLookup(redisClient, cache, DetailKey(r.id), "none")
       IN Set(p, IF cached.hit
                 THEN Answer(r, Response(200, "Post retrieved from cache", cached.value))
                 ELSE [r EXCEPT !.pc = "findById"])
    /\ Aside
    /\ UNCHANGED <<posts, files, nextFile, cache, exportsDir, timers>>

\* await Post.findById(id).populate(...).lean() completes
findPost ==
  \E p \in DOMAIN running :
    /\ At(p, "getPostById", "findById")
    /\ LET r == running[p]
       IN Set(p, IF ~Exists(r.id)
                 THEN Answer(r, Response(404, "Post not found", NoData))
                 ELSE IF redisClient
                 THEN [op |-> r.op, pc |-> "setEx", id |-> r.id, res |-> r.res,
                       emitted |-> r.emitted, post |-> Document(r.id, posts[r.id])]
                 ELSE Answer(r, Response(200, "Post retrieved successfully",
                                         JsonPost(Document(r.id, posts[r.id])))))
    /\ Aside
    /\ UNCHANGED <<posts, files, nextFile, cache, exportsDir, timers>>

\* await redisClient.setEx(cacheKey, 600, JSON.stringify(post)) completes
cacheSetEx ==
  \E p \in DOMAIN running :
    /\ At(p, "getPostById", "setEx")
    /\ LET r == running[p]
       IN /\ cache' = CacheStore(redisClient, cache, DetailKey(r.id), DetailTTL,
                                 JSONstringify(JsonPost(r.post)), "none")
          /\ Set(p, Answer(r, Response(200, "Post retrieved successfully", JsonPost(r.post))))
    /\ Aside
    /\ UNCHANGED <<posts, files, nextFile, exportsDir, timers>>

\* deletePost is called: up to Post.findById
beginDeletePost(callers, ids) ==
  \E p \in DOMAIN running, user \in callers, id \in ids :
    /\ Vacant(p)
    /\ Set(p, [op |-> "deletePost", pc |-> "findById", user |-> user, id |-> id,
               res |-> NoResponse, emitted |-> <<>>])
    /\ Aside
    /\ UNCHANGED <<posts, files, nextFile, cache, exportsDir, timers>>

\* deletePost: await Post.findById(id) completes; the author check and the
\* removal of the thumbnail file follow, up to Post.findByIdAndDelete
findPostToDelete ==
  \E p \in DOMAIN running :
    /\ At(p, "deletePost", "findById")
    /\ LET r == running[p]
       IN IF ~Exists(r.id)
          THEN Set(p, Answer(r, Response(404, "Post not found", NoData)))
               /\ files' = files
          ELSE IF ~IsAuthor(posts[r.id], r.user)
          THEN Set(p, Answer(r, Response(403, "You can only delete your own posts", NoData)))
               /\ files' = files
          ELSE /\ Set(p, [op |-> r.op, pc |-> "findByIdAndDelete", user |-> r.user,
                          id |-> r.id, res |-> r.res, emitted |-> r.emitted,
                          post |-> posts[r.id]])
               /\ files' = UnlinkThumbnail(files, posts[r.id].thumbnail)
    /\ Aside
    /\ UNCHANGED <<posts, nextFile, cache, exportsDir, timers>>

\* the handler after its store write: with a cache client it waits for
\* redisClient.keys, without one it answers
AfterWrite(r, event, response) ==
  IF redisClient
  THEN [op |-> r.op, pc |-> "keys", user |-> r.user, id |-> r.id, res |-> response,
        emitted |-> <<event>>]
  ELSE [Answer(r, response) EXCEPT !.emitted = <<event>>]

\* deletePost: await Post.findByIdAndDelete(id) completes, whether or not the
\* post is still there; post:deleted is emitted with the post looked up
findByIdAndDelete ==
  \E p \in DOMAIN running :
    /\ At(p, "deletePost", "findByIdAndDelete")
    /\ LET r == running[p]
       IN /\ posts' = [i \in DOMAIN posts \ {r.id} |-> posts[i]]
          /\ Set(p, AfterWrite(r, PostDeleted(r.id, r.post),
                               Response(200, "Post deleted successfully", NoData)))
    /\ Aside
    /\ UNCHANGED <<files, nextFile, cache, exportsDir, timers>>

\* updatePost is called, after multer stored the uploaded file: up to
\* Post.findById
beginUpdatePost(callers, ids, bodies) ==
  \E p \in DOMAIN running, user \in callers, id \in ids, body \in bodies, file \in UploadChoices :
    /\ Vacant(p)
    /\ Set(p, [op |-> "updatePost", pc |-> "findById", user |-> user, id |-> id,
               body |-> body, file |-> file, res |-> NoResponse, emitted |-> <<>>])
    /\ files' = files \cup Uploaded(file)
    /\ nextFile' = IF file = NoFile THEN nextFile ELSE nextFile + 1
    /\ Aside
    /\ UNCHANGED <<posts, cache, exportsDir, timers>>

\* updatePost: await Post.findById(id) completes; the author check and the
\* thumbnail handling follow, up to Post.findByIdAndUpdate
findPostToUpdate ==
  \E p \in DOMAIN running :
    /\ At(p, "updatePost", "findById")
    /\ LET r == running[p]
       IN IF ~Exists(r.id)
          THEN Set(p, Answer(r, Response(404, "Post not found", NoData)))
               /\ files' = files
          ELSE IF ~IsAuthor(posts[r.id], r.user)
          THEN Set(p, Answer(r, Response(403, "You can only update your own posts", NoData)))
               /\ files' = files
          ELSE LET post == posts[r.id]
               IN /\ Set(p, [op |-> r.op, pc |-> "findByIdAndUpdate", user |-> r.user,
                             id |-> r.id, body |-> r.body, file |-> r.file, res |-> r.res,
                             emitted |-> r.emitted,
                             thumbnailPath |-> IF r.file # NoFile THEN ThumbnailPath(r.file)
                                               ELSE post.thumbnail])
                  /\ files' = IF r.file # NoFile THEN UnlinkThumbnail(files, post.thumbnail)
                              ELSE files
    /\ Aside
    /\ UNCHANGED <<posts, nextFile, cache, exportsDir, timers>>

\* updatePost: await Post.findByIdAndUpdate(id, {...}, { new: true,
\* runValidators: true }) completes. A rejected validation throws; a post that
\* is gone gives null, and reading updatedPost.title for the event throws
findByIdAndUpdate ==
  \E p \in DOMAIN running :
    /\ At(p, "updatePost", "findByIdAndUpdate")
    /\ LET r == running[p]
       IN IF ~UpdateValid(r.body) \/ ~Exists(r.id)
          THEN /\ Set(p, Answer(r, Response(500, "Error updating post", NoData)))
               /\ posts' = posts
          ELSE LET updatedPost == Patched(posts[r.id], r.body, r.thumbnailPath)
               IN /\ posts' = [posts EXCEPT ![r.id] = updatedPost]
                  /\ Set(p, AfterWrite(r, PostUpdated(r.id, updatedPost),
                                       Response(200, "Post updated successfully",
                                                JsonPost(Document(r.id, updatedPost)))))
    /\ Aside
    /\ UNCHANGED <<files, nextFile, cache, exportsDir, timers>>

\* updatePost, deletePost: await redisClient.keys('posts:*') completes;
\* keys.push(`post:${id}`)
cacheKeys ==
  \E p \in DOMAIN running :
    /\ running[p].pc = "keys"
    /\ LET r == running[p]
       IN Set(p, [op |-> r.op, pc |-> "del", user |-> r.user, id |-> r.id, res |-> r.res,
                  emitted |-> r.emitted, keys |-> ListKeys(cache) \cup {DetailKey(r.id)}])
    /\ Aside
    /\ UNCHANGED <<posts, files, nextFile, cache, exportsDir, timers>>

\* updatePost, deletePost: await redisClient.del(keys) completes, and the
\* handler answers
cacheDel ==
  \E p \in DOMAIN running :
    /\ running[p].pc = "del"
    /\ LET r == running[p]
       IN /\ cache' = Del(cache, r.keys)
          /\ Set(p, Answer(r, r.res))
    /\ Aside
    /\ UNCHANGED <<posts, files, nextFile, exportsDir, timers>>


\* the post of an earlier run, with its thumbnail in upload storage
Thumbnail0 == ThumbnailPath(<<0>>)

\* the patch the overlapping Updates send
OverlapBodies == {Body(TitleB, Undef, Undef)}

\* the service started on a store that holds john_doe's post 0 with a
\* thumbnail, and no request yet in any slot
InitOverlap ==
  /\ users = [u \in Users |-> SeedUser(u)]
  /\ posts = [i \in {0} |-> [StoredPost(0, "john_doe", Tech) EXCEPT !.thumbnail = Thumbnail0]]
  /\ nextId = 1
  /\ files = {0}
  /\ nextFile = 1
  /\ redisClient \in BOOLEAN
  /\ cache = <<>>
  /\ req = [op |-> "none"]
  /\ res = NoResponse
  /\ emitted = <<>>
  /\ notified = NoMail
  /\ mail = Idle
  /\ exportsDir = <<>>
  /\ timers = {}
  /\ returned = <<>>
  /\ deletedOK = <<>>
  /\ hist = NoHist
  /\ running = [p \in Slots |-> Free]

\* GetById, Update and Delete of post 0 by its author, side by side
NextOverlap ==
  \/ beginGetPostById({0})
  \/ cacheGet
  \/ findPost
  \/ cacheSetEx
  \/ beginUpdatePost({"john_doe"}, {0}, OverlapBodies)
  \/ findPostToUpdate
  \/ findByIdAndUpdate
  \/ beginDeletePost({"john_doe"}, {0})
  \/ findPostToDelete
  \/ findByIdAndDelete
  \/ cacheKeys
  \/ cacheDel

SpecOverlap == InitOverlap /\ [][NextOverlap]_vars


\* the post service with a cache that answers every operation
Reliable == {"none"}

Next ==
  \/ getAllPosts(ListRequests, Reliable)
  \/ getPostById(Reliable)
  \/ createPost(Reliable)
  \/ updatePost(Reliable)
  \/ deletePost(Reliable)
  \/ Expire

Spec == Init /\ [][Next]_vars

\* the post service, one request at a time, started on a store that holds
\* john_doe's post 0 with a thumbnail
InitThumbnails ==
  /\ users = [u \in Users |-> SeedUser(u)]
  /\ posts = [i \in {0} |-> [StoredPost(0, "john_doe", Tech) EXCEPT !.thumbnail = Thumbnail0]]
  /\ nextId = 1
  /\ files = {0}
  /\ nextFile = 1
  /\ redisClient \in BOOLEAN
  /\ cache = <<>>
  /\ req = [op |-> "none"]
  /\ res = NoResponse
  /\ emitted = <<>>
  /\ notified = NoMail
  /\ mail = Idle
  /\ exportsDir = <<>>
  /\ timers = {}
  /\ returned = <<>>
  /\ deletedOK = <<>>
  /\ hist = NoHist
  /\ running = <<>>

NextThumbnails ==
  \/ createPost(Reliable)
  \/ updatePost(Reliable)
  \/ deletePost(Reliable)

SpecThumbnails == InitThumbnails /\ [][NextThumbnails]_vars


\* the six counts getUserStats asks the store for
StatNames == {"total", "admin", "user", "active", "inactive", "new"}

\* the filter of each User.countDocuments; `since` is the start of the
\* trailing 30 days, as a position in the order the users were created in
Counted(name, u, since) ==
  CASE name = "total" -> TRUE
    [] name = "admin" -> users[u].role = "admin"
    [] name = "user" -> users[u].role = "user"
    [] name = "active" -> users[u].isActive = TRUE
    [] name = "inactive" -> users[u].isActive = FALSE
    [] name = "new" -> SeedOrder(u) >= since

countDocumentsOf(name, since) == Cardinality({u \in DOMAIN users : Counted(name, u, since)})

\* the data of the response of getUserStats
StatsData(stats) ==
  [total |-> stats["total"],
   byRole |-> [admin |-> stats["admin"], user |-> stats["user"]],
   byStatus |-> [active |-> stats["active"], inactive |-> stats["inactive"]],
   newThisMonth |-> stats["new"]]

\* where the trailing 30 days start when Stats is called: after the first
\* seeded user was created
StatsWindows == {2}

\* getUserStats is called: Promise.all([...]) sends six countDocuments to the
\* store and waits for all of them
beginGetUserStats ==
  \E p \in DOMAIN running, since \in StatsWindows :
    /\ Vacant(p)
    /\ Set(p, [op |-> "getUserStats", pc |-> "countDocuments", since |-> since,
               stats |-> <<>>, res |-> NoResponse, emitted |-> <<>>])
    /\ Aside
    /\ UNCHANGED <<posts, files, nextFile, cache, exportsDir, timers>>

\* the store answers one of the counts that are out; the last answer resolves
\* Promise.all and the handler responds
countDocuments ==
  \E p \in DOMAIN running :
    /\ At(p, "getUserStats", "countDocuments")
    /\ \E name \in StatNames \ DOMAIN running[p].stats :
         LET r == running[p]
             stats == [n \in DOMAIN r.stats \cup {name} |->
                         IF n = name THEN countDocumentsOf(name, r.since) ELSE r.stats[n]]
         IN Set(p, IF DOMAIN stats = StatNames
                   THEN Answer([r EXCEPT !.stats = stats],
                               Response(200, "User statistics retrieved successfully",
                                        StatsData(stats)))
                   ELSE [r EXCEPT !.stats = stats])
    /\ Aside
    /\ UNCHANGED <<posts, files, nextFile, cache, exportsDir, timers>>

\* a Stats request in progress while the admin sets users active and inactive
InitStats ==
  /\ users = [u \in Users |-> SeedUser(u)]
  /\ posts = <<>>
  /\ nextId = 1
  /\ files = {}
  /\ nextFile = 1
  /\ redisClient = FALSE
  /\ cache = <<>>
  /\ req = [op |-> "none"]
  /\ res = NoResponse
  /\ emitted = <<>>
  /\ notified = NoMail
  /\ mail = Idle
  /\ exportsDir = <<>>
  /\ timers = {}
  /\ returned = <<>>
  /\ deletedOK = <<>>
  /\ hist = NoHist
  /\ running = [p \in {1} |-> Free]

NextStats ==
  \/ beginGetUserStats
  \/ countDocuments
  \/ updateUserStatus

SpecStats == InitStats /\ [][NextStats]_vars


\* exportPostsToCSV is called: the query is built, up to Post.find
beginExport(callers, requests) ==
  \E p \in DOMAIN running, user \in callers, q \in requests :
    /\ Vacant(p)
    /\ Set(p, [op |-> "exportPostsToCSV", pc |-> "find", user |-> user, query |-> q,
               res |-> NoResponse, emitted |-> <<>>])
    /\ Aside
    /\ UNCHANGED <<posts, files, nextFile, cache, exportsDir, timers>>

\* await Post.find(query)...lean() completes; the file name is made from the
\* clock reading `timestamp`, csvData from the posts, up to writeRecords
findPostsToExport(clock) ==
  \E p \in DOMAIN running, timestamp \in clock :
    /\ At(p, "exportPostsToCSV", "find")
    /\ LET r == running[p]
           ids == ExportIds(posts, ExportQuery(r.user, r.query))
       IN Set(p, IF Len(ids) = 0
                 THEN Answer(r, Response(404, "No posts found for export", NoData))
                 ELSE [op |-> r.op, pc |-> "writeRecords", user |-> r.user,
                       query |-> r.query, res |-> r.res, emitted |-> r.emitted,
                       filename |-> ExportFilename(timestamp),
                       csvData |-> [i \in 1..Len(ids) |-> CsvRow(ids[i], posts[ids[i]])]])
    /\ Aside
    /\ UNCHANGED <<posts, files, nextFile, cache, exportsDir, timers>>

\* await csvWriter.writeRecords(csvData) completes: the file at the path holds
\* the rows, whatever it held before; res.download starts
writeRecords ==
  \E p \in DOMAIN running :
    /\ At(p, "exportPostsToCSV", "writeRecords")
    /\ LET r == running[p]
       IN /\ exportsDir' = [f \in DOMAIN exportsDir \cup {r.filename} |->
                              IF f = r.filename THEN r.csvData ELSE exportsDir[f]]
          /\ Set(p, [r EXCEPT !.pc = "download"])
    /\ Aside
    /\ UNCHANGED <<posts, files, nextFile, cache, timers>>

\* res.download(filepath, filename, callback) ends: the file at the path was
\* sent and the callback starts the clean-up timer, or the transfer failed -
\* also when the file is gone - and the callback answers 500
download ==
  \E p \in DOMAIN running, transfer \in {"delivers", "fails"} :
    /\ At(p, "exportPostsToCSV", "download")
    /\ LET r == running[p]
       IN IF transfer = "delivers" /\ r.filename \in DOMAIN exportsDir
          THEN /\ Set(p, Answer(r, Response(200, "", [filename |-> r.filename,
                                                      rows |-> exportsDir[r.filename]])))
               /\ timers' = timers \cup {r.filename}
          ELSE /\ Set(p, Answer(r, Response(500, "Error downloading file", NoData)))
               /\ timers' = timers
    /\ Aside
    /\ UNCHANGED <<posts, files, nextFile, cache, exportsDir>>

\* the export without any filter
ExportEverything ==
  [category : {Undef}, search : {Undef}, author : {UndefId}, startDate : {Undef},
   endDate : {Undef}]

\* the clock readings two exports may get: the same millisecond or the next
Instants == {0, 1}

\* exports side by side, of a store with a post of john_doe and one of
\* jane_smith
InitExports ==
  /\ users = [u \in Users |-> SeedUser(u)]
  /\ posts = <<StoredPost(1, "john_doe", Tech), StoredPost(2, "jane_smith", Tech)>>
  /\ nextId = 3
  /\ files = {}
  /\ nextFile = 1
  /\ redisClient = FALSE
  /\ cache = <<>>
  /\ req = [op |-> "none"]
  /\ res = NoResponse
  /\ emitted = <<>>
  /\ notified = NoMail
  /\ mail = Idle
  /\ exportsDir = <<>>
  /\ timers = {}
  /\ returned = <<>>
  /\ deletedOK = <<>>
  /\ hist = NoHist
  /\ running = [p \in Slots |-> Free]

NextExports ==
  \/ beginExport(ExportCallers, ExportEverything)
  \/ findPostsToExport(Instants)
  \/ writeRecords
  \/ download
  \/ cleanupExport

SpecExports == InitExports /\ [][NextExports]_vars


\* the same, where every awaited call of an export completes and every
\* clean-up timer that was started fires
SpecExportsLive ==
  /\ SpecExports
  /\ WF_vars(findPostsToExport(Instants) \/ writeRecords \/ download)
  /\ WF_vars(cleanupExport)


\* the post service with a cache whose operations may fail: get, setEx, keys
\* or del throws, or get returns a text JSON.parse rejects
NextFaults ==
  \/ getAllPosts(ListRequests, CacheFaults)
  \/ getPostById(CacheFaults)
  \/ createPost(CacheFaults)
  \/ updatePost(CacheFaults)
  \/ deletePost(CacheFaults)
  \/ Expire

SpecFaults == Init /\ [][NextFaults]_vars

\* the log directory may refuse the write of a line
LogFaults == {"none", "log"}

\* the writes of the post service, with patches of every shape and a log
\* directory that may refuse the write of a line
NextWrites ==
  \/ createPost(LogFaults)
  \/ updatePostWith(FrameBodies, LogFaults)
  \/ deletePost(LogFaults)

SpecWrites == Init /\ [][NextWrites]_vars

\* the post service with a cache client, started on a store that holds a post
\* of an earlier run under the id 0
InitCache ==
  /\ users = [u \in Users |-> SeedUser(u)]
  /\ posts = [i \in {0} |-> StoredPost(0, "jane_smith", Tech)]
  /\ nextId = 1
  /\ files = {}
  /\ nextFile = 1
  /\ redisClient = TRUE
  /\ cache = <<>>
  /\ req = [op |-> "none"]
  /\ res = NoResponse
  /\ emitted = <<>>
  /\ notified = NoMail
  /\ mail = Idle
  /\ exportsDir = <<>>
  /\ timers = {}
  /\ returned = <<>>
  /\ deletedOK = <<>>
  /\ hist = NoHist
  /\ running = <<>>

SpecCache == InitCache /\ [][Next]_vars

\* reads, updates and deletes of the post the store holds, with a cache client
\* and a log directory that may refuse the line of an Update or a Delete
NextLogged ==
  \/ getAllPosts(ListRequests, Reliable)
  \/ getPostById(Reliable)
  \/ updatePost(LogFaults)
  \/ deletePost(LogFaults)

SpecLogged == InitCache /\ [][NextLogged]_vars


\* the writes of the post service on a store of users with and without an
\* email: admin's is there, null, empty or absent, jane_smith's there or null,
\* and either of them may be deactivated
InitNotify ==
  /\ users \in {[u \in Users |->
                  [SeedUser(u) EXCEPT
                     !.isActive = u \notin inactive,
                     !.email = IF u = "admin" THEN adminEmail
                               ELSE IF u = "jane_smith" THEN janeEmail ELSE @]] :
                  inactive \in SUBSET {"admin", "jane_smith"},
                  adminEmail \in {Email("admin"), Null, <<>>, Undef},
                  janeEmail \in {Email("jane_smith"), Null}}
  /\ posts = <<>>
  /\ nextId = 1
  /\ files = {}
  /\ nextFile = 1
  /\ redisClient = FALSE
  /\ cache = <<>>
  /\ req = [op |-> "none"]
  /\ res = NoResponse
  /\ emitted = <<>>
  /\ notified = NoMail
  /\ mail = Idle
  /\ exportsDir = <<>>
  /\ timers = {}
  /\ returned = <<>>
  /\ deletedOK = <<>>
  /\ hist = NoHist
  /\ running = <<>>

NextNotify ==
  \/ createPost(Reliable)
  \/ updatePost(Reliable)
  \/ deletePost(Reliable)

SpecNotify == InitNotify /\ [][NextNotify]_vars

\* the calls of sendBulkEmail
Continue ==
  \/ startBatch
  \/ sendEmail
  \/ batchSettled
  \/ delayElapsed
  \/ returnResults

NextMail ==
  \/ sendBulkEmail
  \/ Continue

SpecMail == Init /\ [][NextMail]_vars

\* what sendBulkEmail waits for comes: each transporter.sendMail settles, the
\* timer fires, and the event loop runs the continuation that is ready
SpecMailLive == SpecMail /\ WF_vars(Continue)

\* Lists over a store of posts that no request changes, with a cache client
InitKeys ==
  /\ users = [u \in Users |-> SeedUser(u)]
  /\ posts \in Stores(MaxStored, {"john_doe"}, {Tech, Other})
  /\ nextId = Len(posts) + 1
  /\ files = {}
  /\ nextFile = 1
  /\ redisClient = TRUE
  /\ cache = <<>>
  /\ req = [op |-> "none"]
  /\ res = NoResponse
  /\ emitted = <<>>
  /\ notified = NoMail
  /\ mail = Idle
  /\ exportsDir = <<>>
  /\ timers = {}
  /\ returned = <<>>
  /\ deletedOK = <<>>
  /\ hist = NoHist
  /\ running = <<>>

NextKeys ==
  \/ getAllPosts(KeyRequests, Reliable)
  \/ Expire

SpecKeys == InitKeys /\ [][NextKeys]_vars

\* paging through a store of posts and through the users
InitPages == InitStore(Stores(MaxStored, {"john_doe"}, {Tech, Other}), {"jane_smith"})

NextPages ==
  \/ getAllPosts(PageRequests, Reliable)
  \/ getAllUsers

SpecPages == InitPages /\ [][NextPages]_vars

\* the administration of users
NextUsers ==
  \/ updateUserStatus
  \/ getAllUsers

SpecUsers == Init /\ [][NextUsers]_vars

\* exports of a store of posts
InitExport == InitStore(Stores(MaxExported, Authors, {Tech, Other}), {})

NextExport ==
  \/ exportPostsToCSV
  \/ cleanupExport

SpecExport == InitExport /\ [][NextExport]_vars

\* the chain of middleware in front of the user handlers: a handler that reads
\* the caller runs for the identity verifyToken attached
NextAuth ==
  \/ verifyToken
  \/ isAdmin
  \/ isActiveUser
  \/ getProfile
  \/ updateProfile
  \/ getUserById
  \/ Routed("getAllUsers") /\ getAllUsers
  \/ Routed("updateUserStatus") /\ req.user # NoUser /\ updateUserStatus
       /\ req'.user = req.user._id.hex

SpecAuth == Init /\ [][NextAuth]_vars

\* ------------------------------------------------------------------ claims
Mutations == {"createPost", "updatePost", "deletePost"}

\* C1: an update or delete of an existing post by a caller who is not its
\* author is answered 403 and changes nothing: the stored posts, the post's
\* thumbnail file and every cache entry stay as they were, and no event is
\* emitted.
C1_NonAuthorForbidden ==
  [][(/\ req'.op \in {"updatePost", "deletePost"}
      /\ Exists(req'.id)
      /\ posts[req'.id].author # req'.user)
     => (/\ res'.status = 403
         /\ posts' = posts
         /\ files \subseteq files'
         /\ cache' = cache
         /\ emitted' = <<>>)]_vars

\* a non-author was refused on a post that has a thumbnail file and is cached
C1_Witness ==
  /\ req.op \in {"updatePost", "deletePost"}
  /\ Exists(req.id)
  /\ posts[req.id].author # req.user
  /\ res.status = 403
  /\ posts[req.id].thumbnail # <<>>
  /\ FileOf(posts[req.id].thumbnail) \in files
  /\ DetailKey(req.id) \in DOMAIN cache
  /\ ListKeys(cache) # {}

\* C3: with a cache client, a List that repeats the query of the List before
\* it (nothing in between) is answered with exactly the same response body.
C3_SameResponse ==
  [][(/\ redisClient
      /\ req.op = "getAllPosts"
      /\ req'.op = "getAllPosts"
      /\ req'.query = req.query)
     => res' = res]_vars

\* C3 as the code has it: the repeated List is served from the cache with the
\* same status and the same data (posts and pagination) as the List before
\* it; only the message of the body may differ.
C3_SameData ==
  [][(/\ redisClient
      /\ req.op = "getAllPosts"
      /\ req'.op = "getAllPosts"
      /\ req'.query = req.query)
     => (/\ res'.status = res.status
         /\ res'.data = res.data
         /\ res'.message = "Posts retrieved from cache")]_vars

\* a List repeated the query of a List the store answered, and its page holds a post
C3_Witness ==
  /\ redisClient
  /\ req.op = "getAllPosts"
  /\ hist.repeat
  /\ res.message = "Posts retrieved from cache"
  /\ Len(res.data.posts) > 0

\* C4: with a cache client, the List that follows a successful Create, Update
\* or Delete (nothing in between) is answered from the store, and its posts
\* and pagination are those of the store after the write.
C4_ListAfterWrite ==
  [][(/\ redisClient
      /\ req.op \in Mutations
      /\ Succeeded(res)
      /\ req'.op = "getAllPosts")
     => (/\ res'.status = 200
         /\ res'.message = "Posts retrieved successfully"
         /\ res'.data = JsonResult(ListResult(posts', req'.query)).data
         /\ posts' = posts)]_vars

\* a List followed a write that had cleared cached list pages
C4_Witness ==
  /\ redisClient
  /\ req.op = "getAllPosts"
  /\ hist.afterWrite
  /\ res.message = "Posts retrieved successfully"

\* a body createPost must refuse: a field missing or empty, or a category
\* outside the enum
InvalidCreate(body) == MissingField(body) \/ Trim(body.category) \notin CategoryEnum

\* C7: a Create with a missing or empty title, content or category, or with a
\* category outside the enum, is answered 400, stores no post, emits no event
\* and deletes no cache key.
C7_InvalidCreateIs400 ==
  [][(req'.op = "createPost" /\ InvalidCreate(req'.body))
     => (/\ res'.status = 400
         /\ posts' = posts
         /\ emitted' = <<>>
         /\ cache' = cache)]_vars

\* C8: a successful Create returns a post whose author is the caller; until
\* the post is updated or deleted, GetById of its id is answered 200 with the
\* title, content and category the Create returned.
C8_CreateThenGet ==
  /\ (req.op = "createPost" /\ Succeeded(res))
       => /\ res.status = 201
          /\ res.data.author = JsonAuthor(PopulateAuthor(req.user))
          /\ res.data.title = Trim(req.body.title)
  /\ (req.op = "getPostById" /\ req.id \in DOMAIN returned)
       => /\ res.status = 200
          /\ res.data.title = returned[req.id].title
          /\ res.data.content = returned[req.id].content
          /\ res.data.category = returned[req.id].category

\* a created post, sent with a padded title, was read back from the cache
C8_Witness ==
  /\ req.op = "getPostById"
  /\ req.id \in DOMAIN returned
  /\ res.message = "Post retrieved from cache"
  /\ res.data.title = TitleA

\* C9: once a Delete of a post succeeded, GetById of its id is answered 404;
\* and a GetById answered 404 leaves the cache as it was.
C9_DeletedIsGone ==
  [][(req'.op = "getPostById")
     => (/\ req'.id \in DOMAIN deletedOK => res'.status = 404
         /\ res'.status = 404 => cache' = cache)]_vars

\* GetById was answered 404 for a post that was cached when it was deleted
C9_Witness ==
  /\ redisClient
  /\ req.op = "getPostById"
  /\ req.id \in DOMAIN deletedOK
  /\ deletedOK[req.id]
  /\ res.status = 404

\* the request r as the handler runs it with no cache client, from the
\* current state
WithoutCache(r) ==
  CASE r.op = "getAllPosts" -> getAllPostsOutcome(r.query, FALSE, "none")
    [] r.op = "getPostById" -> getPostByIdOutcome(r.id, FALSE, "none")
    [] r.op = "createPost" -> createPostOutcome(r.user, r.body, r.file, FALSE, "none")
    [] r.op = "updatePost" -> updatePostOutcome(r.user, r.id, r.body, r.file, FALSE, "none")
    [] r.op = "deletePost" -> deletePostOutcome(r.user, r.id, FALSE, "none")

\* the key a read looks up
ReadKey(r) == IF r.op = "getAllPosts" THEN ListCacheKey(r.query) ELSE DetailKey(r.id)

\* a cache operation the request r performs fails: its get, or the setEx
\* after a miss, or the keys or del after a write that reached the store
CacheFailure(r) ==
  IF r.op \in {"getAllPosts", "getPostById"}
  THEN \/ LookupFails(redisClient, r.fault)
       \/ /\ StoreFails(redisClient, r.fault)
          /\ ReadKey(r) \notin DOMAIN cache
          /\ r.op = "getPostById" => Exists(r.id)
  ELSE /\ Succeeded(WithoutCache(r).res)
       /\ IF r.op = "createPost"
          THEN ClearListFails(redisClient, cache, r.fault)
          ELSE ClearPostFails(redisClient, r.fault)

Requests == {"getAllPosts", "getPostById"} \cup Mutations

\* the file the request's upload put into storage before the handler ran
UploadOf(r) == IF r.op = "deletePost" THEN {} ELSE Uploaded(r.file)

\* C10: when a cache operation of a List, GetById, Create, Update or Delete
\* fails or returns an unparsable text, the request's status, response data
\* and store effects are those of the same request run without a cache
\* client, and the response is not an error the cache caused.
C10_FailOpen ==
  [][(req'.op \in Requests /\ CacheFailure(req'))
     => LET o == WithoutCache(req')
        IN /\ res'.status = o.res.status
           /\ res'.data = o.res.data
           /\ res'.status < 500 \/ o.res.status >= 500
           /\ req'.op \in Mutations
                => /\ posts' = o.posts
                   /\ files' = o.files \cup UploadOf(req')
                   /\ emitted' = o.emitted
           /\ req'.op \notin Mutations => posts' = posts /\ files' = files]_vars

\* an Update whose cache clear failed was answered 200 with the new title
\* although the cache still holds the post under its old title
C10_Witness ==
  /\ redisClient
  /\ req.op = "updatePost"
  /\ req.fault \in {"keys", "del"}
  /\ res.status = 200
  /\ DetailKey(req.id) \in DOMAIN cache
  /\ JSONparse(cache[DetailKey(req.id)].text).title # res.data.title
  /\ posts[req.id].title = res.data.title

\* the requested isActive is stored as false
StoresFalse(value) == CastBoolean(value).ok /\ ~CastBoolean(value).value

\* C2: a status request of an admin on their own id whose isActive would be
\* stored as false - false itself, or a value the store casts to false - is
\* answered 400 and leaves the admin's isActive as it was; so no user is
\* deactivated by a request of their own.
C2_NoSelfDeactivation ==
  [][(/\ req'.op = "updateUserStatus"
      /\ req'.id = req'.user
      /\ StoresFalse(req'.isActive))
     => (/\ res'.status = 400
         /\ users'[req'.user].isActive = users[req'.user].isActive)]_vars

\* the ids on page k of the List request q, as the handler answers it
PostPage(q, k) ==
  LET page == getAllPostsOutcome([q EXCEPT !.page = DecimalText(k)], FALSE, "none").res.data.posts
  IN [i \in 1..Len(page) |-> page[i]._id.hex]

\* the ids on page k of the user list request q
UserPage(q, k) ==
  LET page == getAllUsersOutcome([q EXCEPT !.page = DecimalText(k)]).data.users
  IN [i \in 1..Len(page) |-> page[i]._id.hex]

Range(f) == {f[i] : i \in DOMAIN f}

\* the pagination of a response: p and l are the requested page and limit,
\* all the matching documents, page(k) the ids the handler returns for page k
PagesSound(pg, total, shown, all, p, l, page(_)) ==
  LET n == Cardinality(all)
  IN /\ total = n
     /\ pg.totalPages * l >= n /\ (pg.totalPages - 1) * l < n
     /\ pg.currentPage = p
     /\ pg.hasNext = (pg.currentPage < pg.totalPages)
     /\ pg.hasPrev = (pg.currentPage > 1)
     /\ p \in 1..pg.totalPages => shown = Min({l, n - (p - 1) * l})
     /\ \A k \in 1..pg.totalPages :
          /\ Len(page(k)) = Min({l, n - (k - 1) * l})
          /\ Cardinality(Range(page(k))) = Len(page(k))
          /\ \A j \in 1..pg.totalPages : j # k => Range(page(j)) \cap Range(page(k)) = {}
     /\ UNION {Range(page(k)) : k \in 1..pg.totalPages} = all

\* C5: for a fixed store, any filter and any limit >= 1, a list of posts and a
\* list of users have totalPages = ceil(total / limit); page p of
\* 1..totalPages holds min(limit, total - (p-1)*limit) documents, no document
\* is on two pages and the pages together hold every matching document;
\* hasNext = (currentPage < totalPages) and hasPrev = (currentPage > 1).
C5_Pagination ==
  /\ req.op = "getAllPosts" =>
       LET q == req.query
           page(k) == PostPage(q, k)
       IN PagesSound(res.data.pagination, res.data.pagination.totalPosts,
                     Len(res.data.posts),
                     MatchingIds(posts, ListQuery(q.category, q.search)),
                     ParseInt(q.page, DefaultPage), ParseInt(q.limit, DefaultLimit), page)
  /\ req.op = "getAllUsers" =>
       LET q == req.query
           page(k) == UserPage(q, k)
       IN PagesSound(res.data.pagination, res.data.pagination.totalUsers,
                     Len(res.data.users),
                     MatchingUsers(UserQuery(q.role, q.search, q.isActive)),
                     ParseInt(q.page, DefaultPage), ParseInt(q.limit, DefaultLimit), page)

\* the second and last page of three posts listed two to a page holds one
C5_Witness ==
  /\ req.op = "getAllPosts"
  /\ res.data.pagination.totalPosts = 3
  /\ res.data.pagination.limit = 2
  /\ res.data.pagination.currentPage = 2
  /\ Len(res.data.posts) = 1
  /\ ~res.data.pagination.hasNext
  /\ res.data.pagination.hasPrev

\* the posts an export selected: the rows of the file it wrote, none on a 404
Selected(o, timestamp) ==
  IF o.res.status = 404 THEN {}
  ELSE LET rows == o.exportsDir[ExportFilename(timestamp)]
       IN {rows[i].id : i \in DOMAIN rows}

\* the posts the export of `userId` selects for the query q
SelectedFor(userId, q) == Selected(exportPostsToCSVOutcome(userId, q, 0, "delivers"), 0)

AuthorParameters == {UndefId} \cup Users

\* C6: an export of a non-admin selects only posts the caller wrote, and the
\* same posts whatever the author parameter is - absent, the caller or another
\* user; an admin who names an author gets that author's posts only.
C6_ExportOwnPosts ==
  req.op = "exportPostsToCSV" =>
    LET chosen == Selected([res |-> res, exportsDir |-> exportsDir], req.timestamp)
    IN IF users[req.user].role # "admin"
       THEN /\ \A id \in chosen : posts[id].author = req.user
            /\ \A a \in AuthorParameters :
                 SelectedFor(req.user, [req.query EXCEPT !.author = a]) = chosen
       ELSE req.query.author # UndefId => \A id \in chosen : posts[id].author = req.query.author

\* a non-admin who named another user, who has a post, got their own post
C6_Witness ==
  /\ req.op = "exportPostsToCSV"
  /\ users[req.user].role # "admin"
  /\ req.query.author \notin {UndefId, req.user}
  /\ \E id \in DOMAIN posts : posts[id].author = req.query.author
  /\ res.status = 200
  /\ Len(res.data.rows) > 0
  /\ \A i \in DOMAIN res.data.rows : res.data.rows[i].authorUsername = req.user

\* the ids of the users the header of the request presents a token for: a
\* 'Bearer <token>' header whose token verifies, is unexpired and names a user
\* of the store
Authenticated(r) == {id \in DOMAIN users : r.authHeader = Bearer(SignedToken(id))}

\* C11: verifyToken calls next with req.user set only for a 'Bearer <token>'
\* header whose token verifies, is unexpired and names an existing user, and
\* req.user is then that user; any other header on a path that is not public
\* yields 401 without a call of next, the store answering; and a request goes
\* on without req.user only on the paths /login and /register
C11_VerifyToken ==
  req.op = "verifyToken" =>
    /\ (req.next /\ req.user # NoUser) =>
         /\ Authenticated(req) # {}
         /\ \A id \in Authenticated(req) : req.user._id = ObjectId(id)
    /\ (req.path \notin {"/login", "/register"} /\ Authenticated(req) = {}
          /\ req.db = "answers") =>
         res.status = 401 /\ ~req.next
    /\ (req.next /\ req.user = NoUser) => req.path \in {"/login", "/register"}

\* verifyToken attached the identity of a user whose account is deactivated
C11_Witness ==
  /\ req.op = "verifyToken"
  /\ req.next
  /\ req.user # NoUser
  /\ req.user._id = ObjectId("john_doe")
  /\ ~req.user.isActive

\* what a gate asks of req.user
Satisfies(user, gate) ==
  IF user = NoUser THEN FALSE
  ELSE IF gate = "isAdmin" THEN user.role = "admin"
  ELSE user.isActive = TRUE

\* C12: a gate calls next exactly when req.user is set and has the role admin
\* (isAdmin) or an active account (isActiveUser); otherwise it answers 403, or
\* 401 when req.user is absent, and a handler runs only when req.user
\* satisfied every gate in front of it
C12_Gates ==
  [][/\ req'.op \in {"isAdmin", "isActiveUser"} =>
          /\ req'.next = Satisfies(req.user, req'.op)
          /\ ~req'.next => res'.status = (IF req.user = NoUser THEN 401 ELSE 403)
     /\ req'.op \in Handlers =>
          \A i \in 1..Len(req.gates) : Satisfies(req.user, req.gates[i])]_vars

\* the second gate of a chain refused an active user who is not an admin
C12_Witness ==
  /\ req.op = "isAdmin"
  /\ req.passed = 2
  /\ ~req.next
  /\ res.status = 403
  /\ req.user.isActive

\* C13: the user documents in the responses of getProfile, getUserById,
\* getAllUsers, updateProfile and updateUserStatus, and the identity
\* verifyToken attaches, have no password field
C13_NoPassword ==
  /\ (req.op \in {"getProfile", "getUserById", "updateProfile", "updateUserStatus"}
        /\ res.status = 200) =>
       "password" \notin DOMAIN res.data
  /\ req.op = "getAllUsers" =>
       \A i \in DOMAIN res.data.users : "password" \notin DOMAIN res.data.users[i]
  /\ (req.op \in Middleware /\ req.user # NoUser) => "password" \notin DOMAIN req.user

\* updateProfile answered with the updated document of a user whose stored
\* document holds a password
C13_Witness ==
  /\ req.op = "updateProfile"
  /\ res.status = 200
  /\ res.data.email = EmailB
  /\ users[res.data._id.hex].password # <<>>
  /\ "password" \in DOMAIN StoredUser(users, res.data._id.hex)

\* the outcome of the write r when the log line is written
Logged(r) ==
  CASE r.op = "createPost" -> createPostOutcome(r.user, r.body, r.file, redisClient, "none")
    [] r.op = "updatePost" ->
         updatePostOutcome(r.user, r.id, r.body, r.file, redisClient, "none")
    [] r.op = "deletePost" -> deletePostOutcome(r.user, r.id, redisClient, "none")

\* C14: when the listener of post:created, post:updated or post:deleted fails
\* to write its log line, the request that emitted the event is answered, with
\* the status and the data it has when the line is written.
C14_LogFailureHarmless ==
  [][(req'.op \in Mutations /\ LogFails(req'.fault) /\ emitted' # <<>>)
     => /\ res' # NoResponse
        /\ res'.status = Logged(req').res.status
        /\ res'.data = Logged(req').res.data]_vars

\* the patch gives the field a value
Provides(body, field) == body[field] \notin {Undef, <<>>}

PageKeys(c) == {k \in DOMAIN c : k[1] = "posts"}
PostKeys(c) == {k \in DOMAIN c : k[1] = "post"}

\* C16: a successful Create deletes every list page of the cache and leaves
\* every detail entry as it is; a successful Update or Delete of the post id
\* deletes every list page and the detail entry of id and leaves the detail
\* entries of the other posts as they are.
C16_InvalidationScope ==
  [][(req'.op \in Mutations /\ Succeeded(res')) =>
       LET gone == IF req'.op = "createPost" THEN {} ELSE {<<"post", req'.id>>}
       IN /\ PageKeys(cache') = {}
          /\ PostKeys(cache') = PostKeys(cache) \ gone
          /\ \A k \in PostKeys(cache') : cache'[k] = cache[k]]_vars

\* an Update of post 1 deleted a list page while the detail of post 0 stays
\* in the cache
C16_Witness ==
  /\ req.op = "updatePost"
  /\ req.id = 1
  /\ res.status = 200
  /\ hist.cleared
  /\ <<"post", 0>> \in DOMAIN cache
  /\ <<"post", 1>> \notin DOMAIN cache

\* the event name of each write
EventOf(op) ==
  CASE op = "createPost" -> "post:created"
    [] op = "updatePost" -> "post:updated"
    [] op = "deletePost" -> "post:deleted"

\* the store holds the write the event e reports
Committed(e) ==
  CASE e.name = "post:created" ->
         /\ e._id.hex \in DOMAIN posts' \ DOMAIN posts
         /\ posts'[e._id.hex].title = e.title
    [] e.name = "post:updated" ->
         /\ e.id.hex \in DOMAIN posts'
         /\ posts'[e.id.hex].title = e.title
    [] e.name = "post:deleted" -> e.id.hex \in DOMAIN posts \ DOMAIN posts'

\* C17: a Create, Update or Delete emits its event only for a write the store
\* holds, exactly once when the request succeeds, and not at all when the
\* request ends in 400, 403, 404 or in a failure of the store write (a 500
\* that is not the listener's).
C17_EventsFollowWrites ==
  [][req'.op \in Mutations =>
       /\ Len(emitted') <= 1
       /\ Succeeded(res') => Len(emitted') = 1
       /\ \A i \in DOMAIN emitted' :
            emitted'[i].name = EventOf(req'.op) /\ Committed(emitted'[i])
       /\ res'.status \in {400, 403, 404} => emitted' = <<>>
       /\ (res'.status = 500 /\ ~LogFails(req'.fault)) => emitted' = <<>> /\ posts' = posts]_vars

\* an Update that changed the title of a post emitted post:updated with the
\* new title
C17_Witness ==
  /\ req.op = "updatePost"
  /\ res.status = 200
  /\ req.body.title = TitleB
  /\ Len(emitted) = 1
  /\ emitted[1].title = TitleB
  /\ returned = <<>>

\* the entries of a list
Entries(list) == {list[i] : i \in DOMAIN list}

\* the emails of the users that are active, have an email that is neither
\* absent, null nor empty, and are not the author
Addressees(author) ==
  {users[u].email : u \in {v \in DOMAIN users :
                             /\ users[v].isActive
                             /\ users[v].email \notin {Undef, Null, <<>>}
                             /\ v # author}}

\* C18: a Create that succeeds hands sendBulkEmail exactly the emails of the
\* users that are active, have an email that is neither absent, null nor
\* empty, and are not the author; an Update or a Delete hands it nothing.
C18_Recipients ==
  /\ (req.op = "createPost" /\ Succeeded(res)) =>
       (IF notified.sent THEN Entries(notified.recipients) ELSE {}) = Addressees(req.user)
  /\ req.op \in {"updatePost", "deletePost"} => ~notified.sent

\* a call of sendBulkEmail is in progress
Running == mail.phase \in {"loop", "sending", "delay"}

\* what a call that returned leaves: one send attempt for each recipient, one
\* result for each recipient in the order of the recipients, and counts that
\* add up to the number of recipients
Tallied ==
  LET n == Len(mail.recipients)
      value == mail.value
  IN /\ \A k \in 1..n : mail.attempts[k] = 1
     /\ Len(value.results) = n
     /\ \A k \in 1..n : value.results[k].to = mail.recipients[k]
     /\ value.successCount + value.failCount = n
     /\ value.successCount = Cardinality({k \in 1..n : value.results[k].success})

\* C19: a call of sendBulkEmail never ends with an exception, makes at most
\* one send attempt for a recipient while it runs, returns with exactly one
\* attempt and one result for each recipient, in order, and with
\* successCount + failCount equal to the number of recipients, and every call
\* returns, whichever sends fail.
C19_BulkTerminates ==
  /\ [](mail.phase # "threw")
  /\ [](Running => \A k \in DOMAIN mail.attempts : mail.attempts[k] <= 1)
  /\ [](mail.phase = "returned" => Tallied)
  /\ (Running ~> mail.phase = "returned")

\* a call for more than one batch returned with sends that failed in the
\* first batch and sends that succeeded after them
C19_Witness ==
  /\ mail.phase = "returned"
  /\ Len(mail.recipients) > batchSize
  /\ ~mail.value.results[1].success
  /\ mail.value.results[batchSize + 1].success
  /\ mail.value.failCount > 1
  /\ mail.value.successCount > 1

\* the number of the batch of the recipient k, from 0
BatchOf(k) == (k - 1) \div 5

\* the recipients whose send has started
Started == {k \in DOMAIN mail.attempts : mail.attempts[k] > 0}

\* C20: the sends start in consecutive batches of at most 5; when a send of a
\* batch has started, every send of the batches before it has settled with its
\* result pushed and one delay has elapsed for each of those batches; at most
\* 5 sends are in flight; a delay follows every batch except the last, so a
\* call for at most 5 recipients has none.
C20_Batches ==
  /\ Running =>
       /\ Cardinality(mail.pending) <= 5
       /\ \A k \in mail.pending : \A j \in mail.pending : BatchOf(j) = BatchOf(k)
       /\ \A k \in Started :
            /\ \A j \in 1..k : j \in Started
            /\ \A j \in DOMAIN mail.recipients :
                 BatchOf(j) < BatchOf(k) => j \in DOMAIN mail.results /\ j \notin mail.pending
            /\ mail.delays >= BatchOf(k)
       /\ \A k \in DOMAIN mail.recipients : mail.delays <= BatchOf(Len(mail.recipients))
  /\ mail.phase = "returned" =>
       mail.delays = IF Len(mail.recipients) <= 5 THEN 0
                     ELSE BatchOf(Len(mail.recipients))

\* a call for three batches returned after two delays
C20_Witness ==
  /\ mail.phase = "returned"
  /\ Len(mail.recipients) > 10
  /\ mail.delays = 2

\* C22: a List served from the cache gets the data the store gives for the
\* parameters of that very request (the store is the one the entry was
\* written from: no request of SpecKeys changes it), so requests that differ
\* in order, or in search absent against search 'none', share no entry.
C22_CacheKeySound ==
  (req.op = "getAllPosts" /\ res.message = "Posts retrieved from cache")
    => res.data = JsonResult(ListResult(posts, req.query)).data

\* C24: with a cache client whose operations succeed, an Update or Delete
\* that committed its store write (it emitted its event) ends with no posts:
\* list key and no post:{id} key of its post in the cache, whatever the
\* listener of the event does.
C24_ClearedAfterCommit ==
  [][(req'.op \in {"updatePost", "deletePost"} /\ redisClient /\ emitted' # <<>>)
     => (ListKeys(cache') = {} /\ DetailKey(req'.id) \notin DOMAIN cache')]_vars

\* C23: when no handler is in progress - every GetById, Update and Delete
\* that overlapped has answered - each post:{id} entry of the cache is the
\* post the store holds under id: none for a deleted post, none with the
\* payload from before an update.
C23_NoStaleEntry ==
  (\A p \in Slots : Vacant(p)) =>
    \A k \in DOMAIN cache :
      k[1] = "post" =>
        /\ Exists(k[2])
        /\ JSONparse(cache[k].text) = JsonPost(Document(k[2], posts[k[2]]))

\* C25: an Update by the author with a valid patch never ends in 500, also
\* when a Delete removes the post between the Update's lookup and its write;
\* and an Update that emitted post:updated wrote a post the store held.
C25_UpdateMeetsDelete ==
  \A p \in Slots :
    (running[p].op = "updatePost" /\ running[p].pc = "done")
      => /\ running[p].res.status # 500
         /\ running[p].emitted # <<>> => running[p].res.status = 200

\* the Delete in slot p emitted post:deleted for the post id
DeleteEmitted(p, id) ==
  /\ running[p].op = "deletePost"
  /\ running[p].id = id
  /\ running[p].emitted # <<>>

\* the Delete in slot p answered 200 for the post id
DeleteReported(p, id) ==
  /\ running[p].op = "deletePost"
  /\ running[p].id = id
  /\ running[p].pc = "done"
  /\ running[p].res.status = 200

\* C26: of the Deletes of one post that overlap, at most one emits
\* post:deleted and at most one answers 200.
C26_DeletedOnce ==
  \A p, q \in Slots, id \in {0} :
    p # q => /\ ~(DeleteEmitted(p, id) /\ DeleteEmitted(q, id))
             /\ ~(DeleteReported(p, id) /\ DeleteReported(q, id))

\* C27: the store write of an Update without a file leaves the thumbnail of
\* every post as it is, whatever other Updates committed since its lookup.
C27_NoFileKeepsThumbnail ==
  [][\A p \in Slots :
       (/\ At(p, "updatePost", "findByIdAndUpdate")
        /\ running[p].file = NoFile
        /\ running'[p] # running[p])
         => \A id \in DOMAIN posts \cap DOMAIN posts' :
              posts'[id].thumbnail = posts[id].thumbnail]_vars

\* C28: a stored post with a thumbnail names a file that exists in upload
\* storage.
C28_ThumbnailExists ==
  \A id \in DOMAIN posts :
    posts[id].thumbnail # <<>> => FileOf(posts[id].thumbnail) \in files

\* C29: the counts of every Stats response add up: admins and users to the
\* total, active and inactive accounts to the total, and the new users are no
\* more than the total.
C29_StatsConsistent ==
  \A p \in DOMAIN running :
    (running[p].op = "getUserStats" /\ running[p].pc = "done") =>
      LET data == running[p].res.data
      IN /\ data.byRole.admin + data.byRole.user = data.total
         /\ data.byStatus.active + data.byStatus.inactive = data.total
         /\ data.newThisMonth <= data.total

\* C30: the file an export delivers holds the rows of that export's own
\* query, with other exports in progress at the same clock reading or not;
\* a caller who is not an admin receives rows of the caller's posts only.
C30_OwnRows ==
  \A p \in DOMAIN running :
    (/\ running[p].op = "exportPostsToCSV"
     /\ running[p].pc = "done"
     /\ running[p].res.status = 200)
      => LET r == running[p]
         IN /\ r.res.data.rows = r.csvData
            /\ users[r.user].role # "admin" =>
                 \A i \in DOMAIN r.res.data.rows : r.res.data.rows[i].authorUsername = r.user

\* C21: every file an export wrote to the exports directory is removed at
\* some later time, whether its download was delivered or failed; and an
\* export that finds no posts answers 404 without writing a file.
C21_ExportRemoved ==
  /\ \A timestamp \in Instants :
       (ExportFilename(timestamp) \in DOMAIN exportsDir)
         ~> (ExportFilename(timestamp) \notin DOMAIN exportsDir)
  /\ [][\A p \in DOMAIN running :
          (/\ running[p].pc = "find"
           /\ running'[p].pc = "done"
           /\ running'[p].res.status = 404) => exportsDir' = exportsDir]_vars

====
